---- MODULE Spec2Model ----
(***************************************************************************)
(* Reconciliation of a provider's model configuration file.                *)
(*                                                                         *)
(* The scripts keep one YAML document per provider under config/models.    *)
(* Two of them rewrite that document from freshly fetched model records    *)
(* while merging with what is on disk:                                     *)
(*   - sync_litellm_models.update_provider_config (load_existing_config,   *)
(*     merge_configs, write back);                                         *)
(*   - fetch_provider_models.ModelFetcher.fetch_openai, which builds a new *)
(*     document from the API answer and hands it to _save_config.          *)
(* The model follows the file of one provider through a bounded number of  *)
(* such runs.  A Python dict is a function whose domain is its key set; a  *)
(* value that may or may not be a mapping (a model's record) carries a     *)
(* flag saying which it is.  YAML dump/load of these documents (strings,   *)
(* integers, lists, nested mappings, null) gives back an equal document,   *)
(* so the file holds the document itself; key order is not modelled.       *)
(***************************************************************************)
EXTENDS Integers, Sequences, FiniteSets, TLC

VARIABLES disk, fetched, call, heap, files, procs, run

vars == <<disk, fetched, call, heap, files, procs, run>>

\* The value of a variable that a specification does not use: the objects in
\* memory (heap), the files of several providers (files), the runs going on
\* side by side (procs) and the position of a script's loop (run) belong to
\* the specifications further down.
Unused == [pc |-> "unused"]

\* ------------------------------------------------------------------ bounds

\* Longest capability list written by hand or delivered in a batch.
MaxCapLen == 2

\* ------------------------------------------------------------ Python dicts

EmptyDict == [k \in {} |-> 0]

Put(d, k, v) == [x \in (DOMAIN d) \cup {k} |-> IF x = k THEN v ELSE d[x]]

Get(d, k, default) == IF k \in DOMAIN d THEN d[k] ELSE default

\* A model's record: a mapping of attributes, or None (YAML null), the one
\* value that is no mapping which the input sets hold.
Rec(attrs) == [map |-> TRUE, attrs |-> attrs]

Null == [map |-> FALSE, attrs |-> EmptyDict]

SetOf(s) == {s[i] : i \in 1..Len(s)}

SeqsUpTo(S, n) == UNION {[1..k -> S] : k \in 0..n}

\* ------------------------------------------------------------- vocabulary

\* The provider whose file is followed.
Provider == "openai"

\* Capability tags and endpoint names in the order Python's sorted() gives
\* them.
CapOrder ==
    <<"assistants", "assistants_api", "audio", "batch_operations",
      "batch_processing", "chat", "code_execution", "code_interpreter",
      "completions", "computer_use", "context_caching", "cost_tracking",
      "document_understanding", "dynamic_model_listing", "file_uploads",
      "files", "fine_tuning", "fine_tuning_api", "function_calling",
      "json_mode", "latex_rendering", "logprobs", "long_context", "messages",
      "moderation", "multiple_images", "parallel_function_calling",
      "prompt_caching", "rate_limiting_headers", "reasoning", "response_format",
      "retrieval", "runs", "seed_control", "streaming", "structured_outputs",
      "system_messages", "threads", "tool_use", "usage_tracking",
      "vector_stores", "vision", "xml_mode">>

Rank(c) == CHOOSE i \in 1..Len(CapOrder) : CapOrder[i] = c

RECURSIVE SortedList(_)
SortedList(S) ==
    IF S = {} THEN <<>>
    ELSE LET m == CHOOSE c \in S : \A d \in S : Rank(c) <= Rank(d)
         IN  <<m>> \o SortedList(S \ {m})

\* ----------------------------------------------- sync_litellm_models.py

\* load_existing_config: the file's document ("yaml.safe_load(f) or {}"),
\* or {"provider": provider} when there is no file.
LoadExistingConfig(d, provider) ==
    IF d.exists THEN d.doc ELSE Put(EmptyDict, "provider", provider)

\* Faulty variant: the new list overwrites the stored one, as for any other key.
MergeCapabilitiesOverwrite(existing_model, value) == value

\* merge_configs, lines 155-157: the union of both capability lists, sorted.
MergeCapabilities(existing_model, value) ==
    SortedList(SetOf(Get(existing_model, "capabilities", <<>>)) \cup SetOf(value))

\* Faulty variant: the new record replaces the stored one.
MergeModelReplace(existing_model, new_data) == new_data

\* Faulty variant: a key both records have keeps the stored value.
MergeModelExistingWins(existing_model, new_data) ==
    [key \in (DOMAIN existing_model) \cup (DOMAIN new_data) |->
        IF key \in DOMAIN existing_model THEN existing_model[key]
        ELSE new_data[key]]

\* merge_configs, lines 151-159: the loop over the new record's items,
\* applied to an existing record that is a mapping.
MergeModel(existing_model, new_data) ==
    [key \in (DOMAIN existing_model) \cup (DOMAIN new_data) |->
        IF key \in DOMAIN new_data
        THEN IF key = "capabilities"
             THEN MergeCapabilities(existing_model, new_data[key])
             ELSE new_data[key]
        ELSE existing_model[key]]

\* merge_configs, lines 145-146: existing["models"], created empty when the
\* key is missing.
ModelsOf(existing) == Get(existing, "models", EmptyDict)

\* Faulty variant: without lines 145-146 a document that has no models key
\* makes the loop's existing["models"] raise KeyError.
MergeRaisesMissingModels(existing, new_models) ==
    \/ "models" \notin DOMAIN existing /\ DOMAIN new_models # {}
    \/ \E model_id \in (DOMAIN new_models) \cap (DOMAIN ModelsOf(existing)) :
          \/ ~new_models[model_id].map
          \/ /\ ~ModelsOf(existing)[model_id].map
             /\ DOMAIN new_models[model_id].attrs # {}

\* merge_configs raises (AttributeError / TypeError) when a model already in
\* existing["models"] meets a new entry that has no .items(), or when the
\* stored record is no mapping and the new record has an item to set on it.
MergeRaises(existing, new_models) ==
    \E model_id \in (DOMAIN new_models) \cap (DOMAIN ModelsOf(existing)) :
        \/ ~new_models[model_id].map
        \/ /\ ~ModelsOf(existing)[model_id].map
           /\ DOMAIN new_models[model_id].attrs # {}

\* Faulty variant: a model that is new to the document is stored with its
\* capability list sorted and freed of duplicates, as a merged one is.
MergedEntrySorted(models, new_models, model_id) ==
    IF model_id \in DOMAIN new_models
    THEN IF model_id \in DOMAIN models
         THEN IF models[model_id].map
              THEN Rec(MergeModel(models[model_id].attrs, new_models[model_id].attrs))
              ELSE models[model_id]
         ELSE IF new_models[model_id].map
                 /\ "capabilities" \in DOMAIN new_models[model_id].attrs
              THEN Rec(MergeModel(EmptyDict, new_models[model_id].attrs))
              ELSE new_models[model_id]
    ELSE models[model_id]

\* merge_configs, lines 148-162, for one model id of the result.
MergedEntry(models, new_models, model_id) ==
    IF model_id \in DOMAIN new_models
    THEN IF model_id \in DOMAIN models
         THEN IF models[model_id].map
              THEN Rec(MergeModel(models[model_id].attrs, new_models[model_id].attrs))
              ELSE models[model_id]
         ELSE new_models[model_id]
    ELSE models[model_id]

\* Faulty variant: the models are rebuilt from the new records alone.
MergeConfigsRebuild(existing, new_models) == Put(existing, "models", new_models)

\* Faulty variant: the result starts from a fresh document instead of the stored one.
MergeConfigsFresh(existing, new_models) ==
    LET models == ModelsOf(existing)
    IN  Put(EmptyDict, "models",
            [model_id \in (DOMAIN models) \cup (DOMAIN new_models) |->
                MergedEntry(models, new_models, model_id)])

\* merge_configs when it returns.
MergeConfigs(existing, new_models) ==
    LET models == ModelsOf(existing)
    IN  Put(existing, "models",
            [model_id \in (DOMAIN models) \cup (DOMAIN new_models) |->
                MergedEntry(models, new_models, model_id)])

\* update_provider_config, lines 171-173: "Ensure required fields".
EnsureProvider(updated, provider) ==
    IF "provider" \in DOMAIN updated THEN updated
    ELSE Put(updated, "provider", provider)

\* ---------------------------------------------- fetch_provider_models.py

\* Model ids the OpenAI endpoint may list.
ApiIds == {"gpt-4o", "text-embedding-3-small"}

\* Python's "pattern in model_id": for each model id the patterns for which
\* it is true, among all model ids of this module (with and without a
\* provider prefix) and all patterns the scripts test ids against (the keys
\* of context_overrides and of feature_mappings included).
Contains(model_id, pattern) ==
    pattern \in
      CASE model_id = "gpt-4o" ->
            {"gpt-4", "gpt-4o", "gpt"}
        [] model_id = "gpt-4-turbo" ->
            {"gpt-4", "turbo", "gpt", "gpt-4-turbo"}
        [] model_id = "gpt-4o-mini" ->
            {"gpt-4", "gpt-4o", "mini", "gpt", "gpt-4o-mini"}
        [] model_id = "gpt-3.5-turbo" ->
            {"gpt-3.5", "turbo", "gpt", "gpt-3.5-turbo"}
        [] model_id = "o1" ->
            {"o1"}
        [] model_id = "dall-e-3" ->
            {"dall-e"}
        [] model_id = "text-embedding-3-small" ->
            {"embedding", "small", "embed"}
        [] model_id = "claude-3-5-sonnet-20241022" ->
            {"claude-3", "claude-3-5", "claude"}
        [] model_id = "claude-3-sonnet-20240229" ->
            {"claude-3", "claude"}
        [] model_id = "anthropic/claude-3-5-sonnet" ->
            {"claude-3", "claude-3-5", "claude"}
        [] model_id = "gemini-pro" ->
            {"mini", "pro", "gemini"}
        [] model_id = "gemini/gemini-pro" ->
            {"mini", "pro", "gemini"}
        [] model_id = "gemini-1.5-flash" ->
            {"mini", "flash", "gemini-1.5", "gemini"}
        [] model_id = "gemini-2.0-flash" ->
            {"mini", "flash", "gemini", "gemini-2"}
        [] model_id = "command-r" ->
            {"command-r"}
        [] model_id = "mistral-large" ->
            {"mistral"}
        [] model_id = "mistral-medium" ->
            {"mistral"}
        [] model_id = "mistral-small" ->
            {"small", "mistral"}
        [] model_id = "mixtral-8x7b-instruct" ->
            {"mixtral"}
        [] model_id = "openai/gpt-4o" ->
            {"gpt-4", "gpt-4o", "gpt"}
        [] model_id = "legacy-base" ->
            {"legacy", "base"}
        [] model_id = "old-latest" ->
            {"latest", "old"}
        [] OTHER -> {}

\* fetch_openai, lines 148-150: "Skip non-chat models".
SkippedByOpenai(model_id) ==
    \E x \in {"embedding", "tts", "whisper", "dall-e"} : Contains(model_id, x)

\* fetch_openai, lines 152-164: capabilities detected from the model id.
OpenaiCapabilities(model_id) ==
    <<"streaming", "system_messages">> \o
    (IF Contains(model_id, "gpt-4")
     THEN <<"function_calling", "json_mode">> \o
          (IF Contains(model_id, "vision") \/ Contains(model_id, "gpt-4o")
           THEN <<"vision">> ELSE <<>>) \o
          (IF Contains(model_id, "gpt-4o") THEN <<"structured_outputs">> ELSE <<>>)
     ELSE IF Contains(model_id, "gpt-3.5")
     THEN <<"function_calling", "json_mode">>
     ELSE IF Contains(model_id, "o1")
     THEN <<"reasoning", "long_context">>
     ELSE <<>>)

\* fetch_openai, lines 167-198: the override of the key that equals the id,
\* else of the first key of context_overrides that is part of the id, else
\* context_length, what model.get('context_length', 4096) gave.
OpenaiContextWindow(model_id, context_length) ==
    LET context_overrides ==
            << <<"gpt-4o", 128000>>, <<"gpt-4o-mini", 128000>>,
               <<"gpt-4-turbo", 128000>>, <<"gpt-4-turbo-preview", 128000>>,
               <<"gpt-4-0125-preview", 128000>>, <<"gpt-4-1106-preview", 128000>>,
               <<"gpt-4", 8192>>, <<"gpt-4-0613", 8192>>,
               <<"gpt-3.5-turbo", 16385>>, <<"gpt-3.5-turbo-0125", 16385>>,
               <<"gpt-3.5-turbo-1106", 16385>>, <<"gpt-3.5-turbo-16k", 16385>>,
               <<"o1-preview", 128000>>, <<"o1-mini", 128000>>, <<"o1", 200000>>,
               <<"o3", 200000>>, <<"o3-mini", 200000>> >>
        exact == {i \in 1..Len(context_overrides) : context_overrides[i][1] = model_id}
        partial == {i \in 1..Len(context_overrides) :
                       Contains(model_id, context_overrides[i][1])}
    IN  IF exact # {} THEN context_overrides[CHOOSE i \in exact : TRUE][2]
        ELSE IF partial # {}
        THEN context_overrides[CHOOSE i \in partial : \A j \in partial : i <= j][2]
        ELSE context_length

\* fetch_openai, lines 143-203: the models dict built from the listed ids;
\* the entries of the endpoint's list carry an id and no context_length.
OpenaiModels(ids) ==
    [model_id \in {i \in ids : ~SkippedByOpenai(i)} |->
        Rec([context_window |-> OpenaiContextWindow(model_id, 4096),
             capabilities |-> OpenaiCapabilities(model_id)])]

\* fetch_openai, lines 206-214: the document handed to _save_config.
OpenaiDefaultModel == "gpt-4-turbo"

OpenaiConfig(models, now) ==
    [provider |-> "openai",
     default_model |-> OpenaiDefaultModel,
     models |-> models,
     metadata |-> [updated_at |-> now, source |-> "openai_api"]]

\* _save_config, lines 533-536.
LoadForSave(d) == IF d.exists THEN d.doc ELSE EmptyDict

\* _save_config raises (AttributeError) when a stored record that is no
\* mapping belongs to a model of the new document (line 544).
SaveRaises(existing_config, config) ==
    /\ "models" \in DOMAIN existing_config
    /\ "models" \in DOMAIN config
    /\ \E model_id \in (DOMAIN existing_config["models"]) \cap (DOMAIN config["models"]) :
          ~existing_config["models"][model_id].map

\* _save_config, lines 544-546: keys only the stored record has are copied.
KeepManualFields(model_data, new_model) ==
    [key \in (DOMAIN model_data) \cup (DOMAIN new_model) |->
        IF key \in DOMAIN new_model THEN new_model[key] ELSE model_data[key]]

\* _save_config, lines 539-549: the document that is written.
SaveConfigDoc(existing_config, config) ==
    IF "models" \in DOMAIN existing_config /\ "models" \in DOMAIN config
    THEN LET old == existing_config["models"]
             new == config["models"]
         IN  Put(config, "models",
                 [model_id \in (DOMAIN old) \cup (DOMAIN new) |->
                     IF model_id \in DOMAIN old
                     THEN IF model_id \in DOMAIN new
                          THEN Rec(KeepManualFields(old[model_id].attrs,
                                                    new[model_id].attrs))
                          ELSE old[model_id]
                     ELSE new[model_id]])
    ELSE config

\* ------------------------------------------------------------ input sets

\* Capability tags of hand-written lists and of upstream records.
HandCaps == {"streaming", "vision"}

BatchCaps == {"function_calling", "vision"}

Pricing == [input |-> 1, output |-> 2]

\* Every dict over a subset of the keys K, the values drawn per key.
AttrDicts(K, ctx, caps) ==
    { [key \in J |->
          CASE key = "context_window" -> ctx
            [] key = "pricing" -> Pricing
            [] OTHER -> l] :
        J \in SUBSET K, l \in SeqsUpTo(caps, MaxCapLen) }

\* The model under study takes every record of the bounded sets; the second
\* model is the bystander that shows what a run does to a model beside it.
Studied == "gpt-4o"

Bystander == "gpt-4-turbo"

\* A dict with the studied model's entry taken from S and the bystander's
\* from B, each possibly missing.
TwoModelMaps(S, B) ==
    {EmptyDict} \cup
    {Put(EmptyDict, Studied, s) : s \in S} \cup
    {Put(EmptyDict, Bystander, b) : b \in B} \cup
    {Put(Put(EmptyDict, Studied, s), Bystander, b) : s \in S, b \in B}

\* Records of a hand-maintained file.
HandRecords ==
    {Rec(a) : a \in AttrDicts({"context_window", "pricing", "capabilities"},
                              4096, HandCaps)}

HandModels ==
    TwoModelMaps(HandRecords,
                 {Rec([context_window |-> 4096, capabilities |-> <<"streaming">>])})

\* Entries of a batch of new records: attribute mappings or null.
NewEntries ==
    {Null} \cup
    {Rec(a) : a \in AttrDicts({"context_window", "capabilities"},
                              128000, BatchCaps)}

Batches == TwoModelMaps(NewEntries, {Null, Rec([context_window |-> 128000])})

\* Top-level fields of a hand-maintained file.
HandTops ==
    { EmptyDict,
      [provider |-> Provider],
      [provider |-> "azure", default_model |-> "gpt-4o"],
      [provider |-> Provider, default_model |-> "gpt-4-turbo"] }

HandDocs == HandTops \cup {Put(t, "models", m) : t \in HandTops, m \in HandModels}

InitDisks ==
    {[exists |-> FALSE, doc |-> EmptyDict]} \cup
    {[exists |-> TRUE, doc |-> d] : d \in HandDocs}

\* What the OpenAI endpoint answers: no API key, a failed request, a
\* non-200 status, or a list of model ids.
ApiAnswers ==
    {[kind |-> k, ids |-> {}] : k \in {"no_key", "exception", "status"}} \cup
    {[kind |-> "ok", ids |-> ids] : ids \in SUBSET ApiIds}

\* Readings of the wall clock (datetime.now().isoformat()).
Timestamps == {"t1", "t2"}

\* ---------------------------------------------------------------- actions

\* The last run: which script ran, the file it found, the new records it
\* held, whether it raised while merging, and what it returned.
NoCall ==
    [op |-> "init", before |-> [exists |-> FALSE, doc |-> EmptyDict],
     records |-> EmptyDict, raised |-> FALSE, ret |-> "None"]

Init ==
    /\ disk \in InitDisks
    /\ fetched \in Batches
    /\ call = NoCall
    /\ heap = Unused /\ files = Unused /\ procs = Unused /\ run = Unused

\* sync_litellm_models.update_provider_config(provider, models).
UpdateProviderConfig(provider, models) ==
    /\ UNCHANGED <<fetched, heap, files, procs, run>>
    /\ LET existing == LoadExistingConfig(disk, provider)
           raises == MergeRaises(existing, models)
       IN  /\ disk' = IF raises THEN disk
                      ELSE [exists |-> TRUE,
                            doc |-> EnsureProvider(MergeConfigs(existing, models),
                                                   provider)]
           /\ call' = [op |-> "sync", before |-> disk, records |-> models,
                       raised |-> raises, ret |-> "None"]

\* fetch_provider_models.ModelFetcher.fetch_openai().
FetchOpenai(answer, now) ==
    /\ UNCHANGED <<fetched, heap, files, procs, run>>
    /\ LET models == OpenaiModels(answer.ids)
           config == OpenaiConfig(models, now)
           saves  == answer.kind = "ok" /\ DOMAIN models # {}
           raises == saves /\ SaveRaises(LoadForSave(disk), config)
       IN  /\ disk' = IF saves /\ ~raises
                      THEN [exists |-> TRUE,
                            doc |-> SaveConfigDoc(LoadForSave(disk), config)]
                      ELSE disk
           /\ call' = [op |-> "fetch_openai", before |-> disk,
                       records |-> IF saves THEN models ELSE EmptyDict,
                       raised |-> raises,
                       ret |-> IF saves /\ ~raises THEN "True"
                               ELSE IF answer.kind = "ok" /\ ~saves THEN "None"
                               ELSE "False"]

\* A call of update_provider_config(provider, models) with the batch of
\* this behaviour, or a run of fetch_openai.  update_provider_config is the
\* reconciliation as a function: it is called here with any batch, the
\* empty one and one with a null record included.  Its caller main (line
\* 198) passes the batches that are not empty.  The batch stays the same
\* from call to call; SpecGrow has the calls whose batches differ.
Next ==
    \/ UpdateProviderConfig(Provider, fetched)
    \/ \E answer \in ApiAnswers, now \in Timestamps : FetchOpenai(answer, now)

Spec == Init /\ [][Next]_vars

\* ------------------------------------ the scripts that overwrite the file
\*
\* Three more paths write the file of a provider: fetch_groq (which does not
\* go through _save_config), extract_all_providers.write_provider_config and
\* extract_all_litellm_providers.LiteLLMExtractor._save_config.  The file
\* followed here is config/models/groq.yml; none of the three looks into a
\* model id of that file, so the ids of the input sets above serve.

GroqProvider == "groq"

\* fetch_groq, lines 243-252: the models dict built from the entries of the
\* endpoint's "data" list (a dict from each entry's id to its other fields).
GroqModels(data) ==
    [model_id \in DOMAIN data |->
        Rec([context_window |-> Get(data[model_id], "context_window", 4096),
             capabilities |->
                 <<"streaming">> \o
                 (IF Get(data[model_id], "supports_tools", FALSE)
                  THEN <<"function_calling">> ELSE <<>>)])]

\* fetch_groq, lines 270 and 276: "pricing" in existing_model raises
\* TypeError when the stored record of a listed model is None.
GroqRaises(existing_config, models) ==
    \E model_id \in (DOMAIN models) \cap (DOMAIN ModelsOf(existing_config)) :
        ~ModelsOf(existing_config)[model_id].map

\* fetch_groq, lines 269-277: the record written for one listed model.
GroqRecord(existing_model, api_data) ==
    LET fresh == [context_window |-> api_data["context_window"],
                  capabilities |-> api_data["capabilities"]]
    IN  IF "pricing" \in DOMAIN existing_model
        THEN Put(fresh, "pricing", existing_model["pricing"])
        ELSE fresh

\* fetch_groq, lines 262-277: the document that is written.
GroqConfig(existing_config, models) ==
    [provider |-> "groq",
     default_model |-> Get(existing_config, "default_model", "llama-3.3-70b-versatile"),
     models |->
        [model_id \in DOMAIN models |->
            Rec(GroqRecord(
                    Get(ModelsOf(existing_config), model_id, Rec(EmptyDict)).attrs,
                    models[model_id].attrs))]]

\* write_provider_config, lines 149-152: the model names that may become
\* the default.
DefaultCandidates(models) ==
    {m \in DOMAIN models :
        \/ Contains(m, "latest")
        \/ Contains(m, "default")
        \/ ~\E x \in {"deprecated", "old", "legacy"} : Contains(m, x)}

\* write_provider_config, lines 146-156: the first candidate in the order
\* of the models dict, or its first key when there is no candidate.  The
\* order is that of the upstream database, so every candidate (every key)
\* can be the first.
DefaultChoices(models) ==
    IF DefaultCandidates(models) # {} THEN DefaultCandidates(models)
    ELSE DOMAIN models

\* write_provider_config, lines 140-156: the document that is written.
WrittenConfig(provider, models, default) ==
    IF DOMAIN models = {} THEN [provider |-> provider, models |-> models]
    ELSE [provider |-> provider, models |-> models, default_model |-> default]

\* LiteLLMExtractor._get_provider_type.
ProviderType(provider) ==
    CASE provider \in {"openai", "anthropic", "google", "cohere", "ai21",
                       "voyage", "mistral"} -> "cloud"
      [] provider \in {"together", "deepinfra", "groq", "fireworks",
                       "replicate", "baseten"} -> "inference"
      [] provider \in {"bedrock", "vertex_ai", "azure", "sagemaker",
                       "databricks", "watsonx"} -> "platform"
      [] provider \in {"openrouter", "cloudflare"} -> "router"
      [] provider \in {"ollama", "vllm", "petals", "huggingface"} -> "local"
      [] OTHER -> "other"

\* LiteLLMExtractor._process_provider, lines 153-159 and 161: the models it
\* hands on are non-empty mappings (_extract_model_info returns None for an
\* empty one) and there is at least one.
ExtractedModels(models) ==
    /\ DOMAIN models # {}
    /\ \A model_id \in DOMAIN models :
          models[model_id].map /\ DOMAIN models[model_id].attrs # {}

\* LiteLLMExtractor._get_default_model, lines 324-334: the names tried first
\* for a provider, in order.
ListedDefaults(provider) ==
    CASE provider = "openai" -> <<"gpt-4o-mini", "gpt-4o", "gpt-3.5-turbo">>
      [] provider = "anthropic" ->
            <<"claude-3-5-sonnet-20241022", "claude-3-sonnet-20240229">>
      [] provider = "google" -> <<"gemini-2.0-flash", "gemini-1.5-flash", "gemini-pro">>
      [] provider = "cohere" -> <<"command-r", "command">>
      [] provider = "mistral" -> <<"mistral-large", "mistral-medium", "mistral-small">>
      [] provider = "meta" -> <<"llama-3.2-70b", "llama-3.1-70b", "llama-3-70b">>
      [] provider = "groq" -> <<"llama-3.2-70b-chat", "mixtral-8x7b-instruct">>
      [] provider = "together" -> <<"meta-llama/Llama-3-70b-chat-hf">>
      [] provider = "deepinfra" -> <<"meta-llama/Llama-3-70b-chat-hf">>
      [] OTHER -> <<>>

\* models[model].get("deprecated") is true.
Deprecated(record) == Get(record.attrs, "deprecated", FALSE) = TRUE

\* Faulty variant: the first listed name, whether the models have it or not.
ExtractorDefaultUnchecked(provider, models) ==
    IF ListedDefaults(provider) # <<>> THEN {ListedDefaults(provider)[1]}
    ELSE DOMAIN models

\* LiteLLMExtractor._get_default_model: the first listed name the models
\* have; else the first model, in the order of the models dict, that is not
\* deprecated and has the first of the keywords mini, flash, small, base
\* that any such model has; else the first model not deprecated; else the
\* first model.  The order is that of the upstream database, so "the first
\* of a set" can be each of its members.
ExtractorDefaultChoices(provider, models) ==
    LET listed == ListedDefaults(provider)
        hits == {i \in 1..Len(listed) : listed[i] \in DOMAIN models}
        live == {m \in DOMAIN models : ~Deprecated(models[m])}
        keywords == <<"mini", "flash", "small", "base">>
        with(k) == {m \in live : Contains(m, keywords[k])}
        found == {k \in 1..Len(keywords) : with(k) # {}}
    IN  IF hits # {}
        THEN {listed[CHOOSE i \in hits : \A j \in hits : i <= j]}
        ELSE IF found # {}
        THEN with(CHOOSE k \in found : \A j \in found : k <= j)
        ELSE IF live # {} THEN live
        ELSE DOMAIN models

\* LiteLLMExtractor._process_provider, lines 163-176: the document handed
\* to _save_config.
ExtractorConfig(provider, models, now, default) ==
    [provider |-> provider,
     provider_type |-> ProviderType(provider),
     models |-> models,
     model_count |-> Cardinality(DOMAIN models),
     last_updated |-> now,
     update_source |-> "litellm_model_database",
     litellm_url |-> "https://raw.githubusercontent.com/BerriAI/litellm/main/model_prices_and_context_window.json",
     default_model |-> default]

\* LiteLLMExtractor._save_config, lines 366-372: the models are put in key
\* order (no change to a dict as modelled here) and the document is written.
ExtractorSavedDoc(config) == config

\* What the Groq endpoint answers.  An entry of its list has an id and may
\* have a context window and a tools flag.
GroqEntries == {EmptyDict, [context_window |-> 8192, supports_tools |-> TRUE]}

GroqData == TwoModelMaps(GroqEntries, {EmptyDict})

GroqAnswers ==
    {[kind |-> k, data |-> EmptyDict] : k \in {"no_key", "exception", "status"}} \cup
    {[kind |-> "ok", data |-> d] : d \in GroqData}

\* The files groq.yml may be when a script starts.
PersistDisks ==
    {[exists |-> FALSE, doc |-> EmptyDict]} \cup
    {[exists |-> TRUE,
      doc |-> [provider |-> GroqProvider, default_model |-> Studied, models |-> m]] :
        m \in HandModels}

InitPersist ==
    /\ disk \in PersistDisks
    /\ fetched \in Batches
    /\ call = NoCall
    /\ heap = Unused /\ files = Unused /\ procs = Unused /\ run = Unused

\* fetch_provider_models.ModelFetcher.fetch_groq().
FetchGroq(answer) ==
    /\ UNCHANGED <<fetched, heap, files, procs, run>>
    /\ LET models == GroqModels(answer.data)
           saves == answer.kind = "ok" /\ DOMAIN models # {}
           existing_config == LoadForSave(disk)
           raises == saves /\ GroqRaises(existing_config, models)
       IN  /\ disk' = IF saves /\ ~raises
                      THEN [exists |-> TRUE, doc |-> GroqConfig(existing_config, models)]
                      ELSE disk
           /\ call' = [op |-> "fetch_groq", before |-> disk,
                       records |-> IF saves THEN models ELSE EmptyDict,
                       raised |-> raises,
                       ret |-> IF saves /\ ~raises THEN "True" ELSE "False"]

\* extract_all_providers.write_provider_config(provider, models, stats), as
\* main calls it (lines 190-192): for a provider with at least one model,
\* each record a mapping built by process_all_providers.
WriteProviderConfig(provider, models, default) ==
    /\ DOMAIN models # {}
    /\ \A model_id \in DOMAIN models : models[model_id].map
    /\ UNCHANGED <<fetched, heap, files, procs, run>>
    /\ disk' = [exists |-> TRUE, doc |-> WrittenConfig(provider, models, default)]
    /\ call' = [op |-> "write_provider_config", before |-> disk, records |-> models,
                raised |-> FALSE, ret |-> "None"]

\* extract_all_litellm_providers.LiteLLMExtractor._save_config(provider,
\* config), with the config _process_provider builds (lines 161-179).
ExtractorSaveConfig(provider, models, now, default) ==
    /\ ExtractedModels(models)
    /\ UNCHANGED <<fetched, heap, files, procs, run>>
    /\ disk' = [exists |-> TRUE,
                doc |-> ExtractorSavedDoc(ExtractorConfig(provider, models, now, default))]
    /\ call' = [op |-> "extractor_save_config", before |-> disk, records |-> models,
                raised |-> FALSE, ret |-> "None"]

NextPersist ==
    \/ \E answer \in GroqAnswers : FetchGroq(answer)
    \/ \E default \in DefaultChoices(fetched) :
          WriteProviderConfig(GroqProvider, fetched, default)
    \/ \E now \in Timestamps, default \in ExtractorDefaultChoices(GroqProvider, fetched) :
          ExtractorSaveConfig(GroqProvider, fetched, now, default)

SpecPersist == InitPersist /\ [][NextPersist]_vars

\* ------------------------------------------- the three merges side by side
\*
\* merge_configs, ModelFetcher._save_config and the merge loop of
\* extract_litellm_models each merge the models of the stored document with
\* a batch of new records and write the merged document to the provider's
\* file.  Here each runs in a configuration directory of its own, the three
\* directories holding the same file at the start (the one of disk), and each
\* is given the same batch; files is the file of each directory, and the
\* merged models each run wrote are kept for comparison.

\* extract_litellm_models, lines 111-116, for one model id of the result:
\* existing_config["models"][model_id].update(model_info), or the new record.
ExtractLoopEntry(models, new_models, model_id) ==
    IF model_id \in DOMAIN new_models
    THEN IF model_id \in DOMAIN models
         THEN Rec([key \in (DOMAIN models[model_id].attrs) \cup
                           (DOMAIN new_models[model_id].attrs) |->
                      IF key \in DOMAIN new_models[model_id].attrs
                      THEN new_models[model_id].attrs[key]
                      ELSE models[model_id].attrs[key]])
         ELSE new_models[model_id]
    ELSE models[model_id]

\* extract_litellm_models, lines 107-116: existing_config["models"] after
\* the loop.
ExtractLoopModels(existing_config, new_models) ==
    LET models == ModelsOf(existing_config)
    IN  [model_id \in (DOMAIN models) \cup (DOMAIN new_models) |->
            ExtractLoopEntry(models, new_models, model_id)]

\* Batches all of whose entries are mappings, as the three scripts build
\* them.
RecordBatches == {b \in Batches : \A model_id \in DOMAIN b : b[model_id].map}

\* The batch is not empty: each script merges and saves under "if models:"
\* (extract_litellm_models skips the provider under "if not models").
InitPolicy ==
    /\ disk \in InitDisks
    /\ fetched \in {models \in RecordBatches : DOMAIN models # {}}
    /\ call = [op |-> "init", merged |-> EmptyDict]
    /\ files = [impl \in {"merge_configs", "_save_config", "merge_loop"} |-> disk]
    /\ heap = Unused /\ procs = Unused /\ run = Unused

\* One implementation loads the file of its directory, merges it with the
\* batch and writes the merged document: update_provider_config (load,
\* merge_configs, provider field, save), ModelFetcher._save_config handed the
\* document a fetcher builds around the new records, or the body of the loop
\* of extract_litellm_models (lines 99-120).  No stored record and no new
\* record of these inputs is None, so none of the three raises.
ApplyMerge(impl) ==
    /\ impl \notin DOMAIN call.merged
    /\ \E now \in Timestamps :
          LET written ==
                CASE impl = "merge_configs" ->
                        EnsureProvider(
                            MergeConfigs(LoadExistingConfig(files[impl], Provider),
                                         fetched),
                            Provider)
                  [] impl = "_save_config" ->
                        SaveConfigDoc(LoadForSave(files[impl]),
                                      OpenaiConfig(fetched, now))
                  [] impl = "merge_loop" ->
                        Put(LoadForSave(files[impl]), "models",
                            ExtractLoopModels(LoadForSave(files[impl]), fetched))
          IN  /\ files' = [files EXCEPT ![impl] = [exists |-> TRUE, doc |-> written]]
              /\ call' = [op |-> "merge",
                          merged |-> Put(call.merged, impl, ModelsOf(written))]
    /\ UNCHANGED <<disk, fetched, heap, procs, run>>

NextPolicy ==
    \/ ApplyMerge("merge_configs")
    \/ ApplyMerge("_save_config")
    \/ ApplyMerge("merge_loop")

SpecPolicy == InitPolicy /\ [][NextPolicy]_vars

\* ------------------------------------------------ merge_configs in memory
\*
\* merge_configs works on the objects its caller passes.  Here a dict is an
\* object at an address; a document refers to its models dict, and a models
\* dict to its records, by address.  Attribute values (numbers, capability
\* lists, the pricing mapping) are kept as values: merge_configs replaces
\* them and never changes one in place.

Ref(a) == [ref |-> a]

\* The address a new object gets, and the objects with it added.
NewObject(objs) == Cardinality(DOMAIN objs) + 1

Store(objs, obj) ==
    [a \in (DOMAIN objs) \cup {NewObject(objs)} |->
        IF a \in DOMAIN objs THEN objs[a] ELSE obj]

\* The records of a models dict as objects, and the dict that refers to them.
RECURSIVE StoreRecords(_, _, _)
StoreRecords(objs, records, refs) ==
    IF DOMAIN refs = DOMAIN records THEN [objs |-> objs, refs |-> refs]
    ELSE LET model_id == CHOOSE i \in (DOMAIN records) \ (DOMAIN refs) : TRUE
         IN  StoreRecords(Store(objs, records[model_id].attrs), records,
                          Put(refs, model_id, Ref(NewObject(objs))))

\* A models dict and its records as objects; the dict is the newest object.
StoreModels(objs, records) ==
    LET stored == StoreRecords(objs, records, EmptyDict)
    IN  Store(stored.objs, stored.refs)

\* A document as objects (what yaml.safe_load or the caller built); the
\* document is the newest object.
StoreDocument(objs, doc) ==
    IF "models" \in DOMAIN doc
    THEN LET with_models == StoreModels(objs, doc["models"])
         IN  Store(with_models,
                   Put(doc, "models", Ref(NewObject(with_models) - 1)))
    ELSE Store(objs, doc)

\* merge_configs, lines 145-146, on the objects.
EnsureModels(objs, existing) ==
    IF "models" \in DOMAIN objs[existing] THEN objs
    ELSE [Store(objs, EmptyDict) EXCEPT
             ![existing] = Put(objs[existing], "models", Ref(NewObject(objs)))]

\* merge_configs, lines 149-162, for one item of new_models: the stored
\* record object is updated in place, or the new record object itself is
\* put into the models dict.
MergeItem(objs, models, model_id, new_data) ==
    IF model_id \in DOMAIN objs[models]
    THEN LET existing_model == objs[models][model_id].ref
         IN  [objs EXCEPT ![existing_model] = MergeModel(objs[existing_model],
                                                         objs[new_data])]
    ELSE [objs EXCEPT ![models] = Put(objs[models], model_id, Ref(new_data))]

\* merge_configs, lines 148-162: the loop over new_models.items().
RECURSIVE MergeItems(_, _, _, _)
MergeItems(objs, models, new_models, todo) ==
    IF todo = {} THEN objs
    ELSE LET model_id == CHOOSE i \in todo : TRUE
         IN  MergeItems(MergeItem(objs, models, model_id, objs[new_models][model_id].ref),
                        models, new_models, todo \ {model_id})

\* merge_configs(existing, new_models): the objects when it returns; the
\* returned object is existing itself (line 164).
MergeConfigsInPlace(objs, existing, new_models) ==
    LET ensured == EnsureModels(objs, existing)
    IN  MergeItems(ensured, ensured[existing]["models"].ref, new_models,
                   DOMAIN objs[new_models])

\* The caller's objects before a call: a document and a batch of records.
CallerObjects(doc, batch) ==
    LET with_doc == StoreDocument(EmptyDict, doc)
        with_batch == StoreModels(with_doc, batch)
    IN  [objs |-> with_batch,
         existing |-> NewObject(with_doc) - 1,
         new_models |-> NewObject(with_batch) - 1,
         returned |-> 0,
         before |-> with_batch]

InitMem ==
    /\ heap \in {CallerObjects(doc, batch) : doc \in HandDocs, batch \in RecordBatches}
    /\ disk = Unused /\ fetched = Unused /\ call = Unused
    /\ files = Unused /\ procs = Unused /\ run = Unused

\* The caller calls merge_configs(existing, new_models) on its objects; it
\* may do so again with the same objects.
CallMergeConfigs ==
    /\ heap' = [heap EXCEPT
                   !.objs = MergeConfigsInPlace(heap.objs, heap.existing, heap.new_models),
                   !.returned = heap.existing,
                   !.before = heap.objs]
    /\ UNCHANGED <<disk, fetched, call, files, procs, run>>

NextMem == CallMergeConfigs

SpecMem == InitMem /\ [][NextMem]_vars

\* ------------------------------------- two reconciliations side by side
\*
\* update_provider_config for two providers, each run taken one step at a
\* time: load the file, merge, open the file for writing (which empties
\* it), dump the document.  The steps of the two runs interleave freely.

\* Faulty variant: every provider's document is kept under one path.
ConfigPathShared(provider) == "config/models/models.yml"

\* load_existing_config line 137, update_provider_config line 176.
ConfigPath(provider) ==
    IF provider = "openai" THEN "config/models/openai.yml"
    ELSE "config/models/anthropic.yml"

SideBySide == {"openai", "anthropic"}

\* update_provider_config run in one piece on a file: the file afterwards.
Reconciled(d, provider, models) ==
    LET existing == LoadExistingConfig(d, provider)
    IN  IF MergeRaises(existing, models) THEN d
        ELSE [exists |-> TRUE,
              doc |-> EnsureProvider(MergeConfigs(existing, models), provider)]

\* The files after two calls of update_provider_config, each in one piece
\* and on its own: the call for provider first, and when it has ended
\* (returned or raised) the call for provider second.
OneAfterTheOther(fs, models, first, second) ==
    LET after_first ==
            [fs EXCEPT ![ConfigPath(first)] =
                Reconciled(fs[ConfigPath(first)], first, models[first])]
    IN  [after_first EXCEPT ![ConfigPath(second)] =
            Reconciled(after_first[ConfigPath(second)], second, models[second])]

\* The files and batches the two runs may start from.
SideDisks ==
    { [exists |-> FALSE, doc |-> EmptyDict],
      [exists |-> TRUE, doc |-> EmptyDict],
      [exists |-> TRUE,
       doc |-> [provider |-> "azure",
                models |-> Put(EmptyDict, Studied,
                               Rec([capabilities |-> <<"streaming">>,
                                    pricing |-> Pricing]))]] }

SideBatches ==
    { EmptyDict,
      Put(EmptyDict, Studied, Rec([capabilities |-> <<"vision">>])),
      Put(EmptyDict, Studied, Null),
      Put(Put(EmptyDict, Studied, Rec([context_window |-> 128000])),
          Bystander, Rec([context_window |-> 128000])) }

InitSide ==
    /\ files \in [{ConfigPath(provider) : provider \in SideBySide} -> SideDisks]
    /\ procs \in [SideBySide -> {[pc |-> "start", models |-> b,
                                  existing |-> EmptyDict, updated |-> EmptyDict] :
                                    b \in SideBatches}]
    /\ run = [start |-> files, steps |-> <<>>]
    /\ disk = Unused /\ fetched = Unused /\ call = Unused /\ heap = Unused

\* update_provider_config line 168: load_existing_config(provider).
Load(provider) ==
    /\ procs[provider].pc = "start"
    /\ procs' = [procs EXCEPT
                    ![provider].pc = "loaded",
                    ![provider].existing =
                        LoadExistingConfig(files[ConfigPath(provider)], provider)]
    /\ run' = [run EXCEPT !.steps = Append(@, provider)]
    /\ UNCHANGED <<files, disk, fetched, call, heap>>

\* update_provider_config lines 169-173: merge_configs and the provider
\* field; an exception ends the run.
Merge(provider) ==
    /\ procs[provider].pc = "loaded"
    /\ LET existing == procs[provider].existing
           models == procs[provider].models
       IN  procs' =
             IF MergeRaises(existing, models)
             THEN [procs EXCEPT ![provider].pc = "raised"]
             ELSE [procs EXCEPT
                      ![provider].pc = "merged",
                      ![provider].updated =
                          EnsureProvider(MergeConfigs(existing, models), provider)]
    /\ run' = [run EXCEPT !.steps = Append(@, provider)]
    /\ UNCHANGED <<files, disk, fetched, call, heap>>

\* update_provider_config line 179: open(config_path, 'w').
OpenForWriting(provider) ==
    /\ procs[provider].pc = "merged"
    /\ procs' = [procs EXCEPT ![provider].pc = "opened"]
    /\ files' = [files EXCEPT ![ConfigPath(provider)] = [exists |-> TRUE, doc |-> EmptyDict]]
    /\ run' = [run EXCEPT !.steps = Append(@, provider)]
    /\ UNCHANGED <<disk, fetched, call, heap>>

\* update_provider_config line 180: yaml.dump(updated, f).
Dump(provider) ==
    /\ procs[provider].pc = "opened"
    /\ procs' = [procs EXCEPT ![provider].pc = "done"]
    /\ files' = [files EXCEPT ![ConfigPath(provider)] =
                    [exists |-> TRUE, doc |-> procs[provider].updated]]
    /\ run' = [run EXCEPT !.steps = Append(@, provider)]
    /\ UNCHANGED <<disk, fetched, call, heap>>

NextSide ==
    \E provider \in SideBySide :
        \/ Load(provider)
        \/ Merge(provider)
        \/ OpenForWriting(provider)
        \/ Dump(provider)

SpecSide == InitSide /\ [][NextSide]_vars

\* ------------------------------- fetch_provider_models: main and fetch_all
\*
\* One run of the script: main() calls fetch_provider for the provider named
\* on the command line, or fetch_all, whose loop is followed one provider at
\* a time.  files holds the file of each provider fetch_all knows, run.start
\* what files was when the script started.  Each
\* endpoint either fails or lists at most one model, given by its id or
\* name alone, a Gemini model also with its supportedGenerationMethods;
\* Ollama's /api/show gives no details.

\* fetch_all, line 24.
FetchAllProviders ==
    <<"anthropic", "openai", "groq", "gemini", "openrouter", "ollama", "bedrock">>

\* Faulty variant: everything but False counts as a success.
TruthyNotFalse(ret) == ret # "False"

\* fetch_all line 32, main line 568: "if self.fetch_provider(provider)".
Truthy(ret) == ret = "True"

\* The fetchers that return early without an API key.
NeedsKey(provider) == provider \in {"anthropic", "openai", "groq", "gemini"}

\* What an endpoint answers; a fetcher that needs no key cannot lack it.
\* methods is the supportedGenerationMethods of the entry listed, which the
\* Gemini endpoint may give: generateContent, another method, or none.
FetchAnswers(provider) ==
    IF provider = "bedrock"
    THEN {[kind |-> "none", listed |-> FALSE, methods |-> <<>>]}
    ELSE {[kind |-> k, listed |-> FALSE, methods |-> <<>>] :
             k \in {"exception", "status"} \cup
                   (IF NeedsKey(provider) THEN {"no_key"} ELSE {})} \cup
         {[kind |-> "ok", listed |-> l, methods |-> <<>>] : l \in BOOLEAN} \cup
         (IF provider = "gemini"
          THEN {[kind |-> "ok", listed |-> TRUE, methods |-> m] :
                   m \in {<<"generateContent">>, <<"embedContent">>}}
          ELSE {})

AllFetchAnswers == UNION {FetchAnswers(provider) : provider \in SetOf(FetchAllProviders)}

\* fetch_anthropic, lines 80-99, for an entry with an id and no flags.
AnthropicCapabilities(model_id) ==
    <<"streaming", "system_messages">> \o
    (IF Contains(model_id, "claude-3")
     THEN <<"json_mode", "xml_mode", "structured_outputs">> \o
          (IF Contains(model_id, "claude-3-5")
           THEN <<"document_understanding", "latex_rendering">> ELSE <<>>)
     ELSE <<>>)

\* fetch_gemini, lines 314-326, for an entry with a name and no flags.
GeminiCapabilities(model_name) ==
    <<"streaming", "function_calling", "system_messages">> \o
    (IF Contains(model_name, "vision") \/ Contains(model_name, "gemini-pro-vision")
     THEN <<"vision">> ELSE <<>>) \o
    (IF Contains(model_name, "gemini-1.5")
     THEN <<"long_context", "document_understanding", "audio_input">> \o
          (IF Contains(model_name, "pro") THEN <<"video_understanding">> ELSE <<>>)
     ELSE <<>>)

\* fetch_ollama, lines 409-484, with no details from /api/show.
OllamaCapabilities(model_name) ==
    <<"streaming">> \o
    (IF \E x \in {"llama3.1", "llama3.2", "llama3.3", "mistral", "mixtral", "qwen2",
                  "qwen2.5", "command-r", "gemma2", "firefunction"} :
            Contains(model_name, x)
     THEN <<"function_calling">> ELSE <<>>) \o
    (IF \E x \in {"vision", "llava", "bakllava"} : Contains(model_name, x)
     THEN <<"vision">> ELSE <<>>) \o
    (IF \E x \in {"embed", "embedding"} : Contains(model_name, x)
     THEN <<"embeddings">> ELSE <<>>)

\* The models dict a fetcher builds when its endpoint lists one model, an
\* entry with the supportedGenerationMethods methods: fetch_gemini keeps it
\* only when generateContent is among them (line 312), the other fetchers
\* do not read them.
ListedModels(provider, methods) ==
    CASE provider = "anthropic" ->
            Put(EmptyDict, "claude-3-5-sonnet-20241022",
                Rec([context_window |-> 200000, max_output_tokens |-> 4096,
                     capabilities |-> AnthropicCapabilities("claude-3-5-sonnet-20241022")]))
      [] provider = "openai" -> OpenaiModels({"gpt-4o"})
      [] provider = "groq" -> GroqModels(Put(EmptyDict, "gpt-4o", EmptyDict))
      [] provider = "gemini" ->
            IF "generateContent" \in SetOf(methods)
            THEN Put(EmptyDict, "gemini/gemini-pro",
                     Rec([context_window |-> 32760, max_output_tokens |-> 2048,
                          capabilities |-> GeminiCapabilities("gemini-pro")]))
            ELSE EmptyDict
      [] provider = "openrouter" ->
            Put(EmptyDict, "anthropic/claude-3-5-sonnet",
                Rec([context_window |-> 4096, max_output_tokens |-> "None",
                     capabilities |-> <<"streaming">>]))
      [] provider = "ollama" ->
            Put(EmptyDict, "ollama/llama2",
                Rec([context_window |-> 4096,
                     capabilities |-> OllamaCapabilities("llama2")]))

\* The default_model each fetcher writes: fetch_anthropic line 111,
\* fetch_openai 208, fetch_groq 264, fetch_gemini 337, fetch_openrouter 382,
\* fetch_ollama 499 (the first key of its models).
FetcherDefault(provider, existing_config, models) ==
    CASE provider = "anthropic" ->
            Get(existing_config, "default_model", "claude-3-5-sonnet-20241022")
      [] provider = "openai" -> OpenaiDefaultModel
      [] provider = "groq" ->
            Get(existing_config, "default_model", "llama-3.3-70b-versatile")
      [] provider = "gemini" -> "gemini/gemini-pro"
      [] provider = "openrouter" -> "anthropic/claude-3-5-sonnet"
      [] provider = "ollama" ->
            Get(existing_config, "default_model", CHOOSE m \in DOMAIN models : TRUE)

\* The document a fetcher other than fetch_groq hands to _save_config.
FetcherConfig(provider, existing_config, models, now) ==
    [provider |-> provider,
     default_model |-> FetcherDefault(provider, existing_config, models),
     models |-> models,
     metadata |-> [updated_at |-> now,
                   source |-> CASE provider = "anthropic" -> "anthropic_api"
                                [] provider = "openai" -> "openai_api"
                                [] provider = "gemini" -> "gemini_api"
                                [] provider = "openrouter" -> "openrouter_api"
                                [] provider = "ollama" -> "ollama_api"]]

\* What a fetcher returns when the endpoint lists no model: False from the
\* else branch of "if models:", None where there is no such branch.
EmptyReturn(provider) ==
    IF provider \in {"anthropic", "groq", "ollama"} THEN "False" ELSE "None"

\* One of fetch_anthropic ... fetch_bedrock on the provider's file d: what
\* it returns, whether it wrote the file, and the file afterwards.  An
\* exception while saving is caught by the fetcher (it returns False).
RunFetcher(provider, answer, now, d) ==
    LET models == IF answer.listed THEN ListedModels(provider, answer.methods)
                  ELSE EmptyDict
        existing_config == LoadForSave(d)
        saves == answer.kind = "ok" /\ DOMAIN models # {}
        raises == /\ saves
                  /\ IF provider = "groq" THEN GroqRaises(existing_config, models)
                     ELSE SaveRaises(existing_config, Put(EmptyDict, "models", models))
        doc == IF provider = "groq" THEN GroqConfig(existing_config, models)
               ELSE SaveConfigDoc(existing_config,
                                  FetcherConfig(provider, existing_config, models, now))
    IN  IF saves /\ ~raises
        THEN [ret |-> "True", raised |-> FALSE, wrote |-> TRUE,
              file |-> [exists |-> TRUE, doc |-> doc]]
        ELSE [ret |-> IF answer.kind = "ok" /\ ~saves THEN EmptyReturn(provider)
                      ELSE "False",
              raised |-> FALSE, wrote |-> FALSE, file |-> d]

\* The names for which getattr(self, f'fetch_{provider}', None) finds a
\* method that is no fetcher: fetch_all and fetch_provider itself.
OtherMethods == {"all", "provider"}

\* Command lines: no argument (""), --help, a provider of the list, the two
\* other method names, and a name with no method.
CommandLines == {"", "--help", "all", "provider", "mistral"} \cup SetOf(FetchAllProviders)

NoFile == [exists |-> FALSE, doc |-> EmptyDict]

\* A hand-maintained file, and one whose listed model has an empty entry.
HandFile(provider) ==
    [exists |-> TRUE,
     doc |-> [provider |-> provider, default_model |-> "hand-picked",
              models |-> Put(EmptyDict, "hand-model", Rec([context_window |-> 4096]))]]

NullFile(provider) ==
    [exists |-> TRUE,
     doc |-> [provider |-> provider, default_model |-> "hand-picked",
              models |-> IF provider = "bedrock" THEN EmptyDict
                         ELSE [m \in DOMAIN ListedModels(provider,
                                                          <<"generateContent">>) |->
                                  Null]]]

FetchDirs ==
    { [provider \in SetOf(FetchAllProviders) |-> NoFile],
      [provider \in SetOf(FetchAllProviders) |-> HandFile(provider)],
      [provider \in SetOf(FetchAllProviders) |-> NullFile(provider)] }

NoFetch == [op |-> "init", provider |-> "", ret |-> "None", raised |-> FALSE,
            wrote |-> FALSE, before |-> NoFile, after |-> NoFile]

InitFetch ==
    /\ files \in FetchDirs
    /\ run \in {[pc |-> "main", argv |-> a, i |-> 1, successful |-> <<>>,
                  failed |-> <<>>, attempted |-> <<>>, written |-> {},
                  hinted |-> FALSE, start |-> files] : a \in CommandLines}
    /\ call = NoFetch
    /\ disk = Unused /\ fetched = Unused /\ heap = Unused /\ procs = Unused

\* main, lines 563-565: --help prints the docstring and exits.
MainHelp ==
    /\ run.pc = "main" /\ run.argv = "--help"
    /\ run' = [run EXCEPT !.pc = "done"]
    /\ UNCHANGED <<files, call, disk, fetched, heap, procs>>

\* main, lines 567-572, for a provider that has a fetcher.
MainFetchProvider(answer, now) ==
    /\ run.pc = "main" /\ run.argv \in SetOf(FetchAllProviders)
    /\ answer \in FetchAnswers(run.argv)
    /\ LET provider == run.argv
           result == RunFetcher(provider, answer, now, files[provider])
       IN  /\ files' = [files EXCEPT ![provider] = result.file]
           /\ call' = [op |-> "fetch_provider", provider |-> provider,
                       ret |-> result.ret, raised |-> FALSE, wrote |-> result.wrote,
                       before |-> files[provider], after |-> result.file]
           /\ run' = [run EXCEPT
                         !.pc = "done",
                         !.written = IF result.wrote THEN {provider} ELSE {},
                         !.failed = IF Truthy(result.ret) THEN <<>> ELSE <<provider>>,
                         !.successful = IF Truthy(result.ret) THEN <<provider>> ELSE <<>>,
                         !.hinted = ~Truthy(result.ret)]
    /\ UNCHANGED <<disk, fetched, heap, procs>>

\* main, lines 567-572, for a name without a fetcher: fetch_provider finds
\* no method and returns False (lines 51-53), or finds fetch_provider itself
\* and calls it without its argument, which raises TypeError and ends the
\* script.  No file has that name.
MainFetchOther ==
    /\ run.pc = "main"
    /\ run.argv \notin SetOf(FetchAllProviders) \cup {"", "--help", "all"}
    /\ call' = [op |-> "fetch_provider", provider |-> run.argv,
                ret |-> IF run.argv \in OtherMethods THEN "None" ELSE "False",
                raised |-> run.argv \in OtherMethods, wrote |-> FALSE,
                before |-> NoFile, after |-> NoFile]
    /\ run' = [run EXCEPT
                  !.pc = IF run.argv \in OtherMethods THEN "crashed" ELSE "done",
                  !.failed = IF run.argv \in OtherMethods THEN <<>> ELSE <<run.argv>>,
                  !.hinted = run.argv \notin OtherMethods]
    /\ UNCHANGED <<files, disk, fetched, heap, procs>>

\* main line 574, or fetch_provider("all"), whose method is fetch_all:
\* fetch_all starts (lines 24-27).
FetchAllStart ==
    /\ run.pc = "main" /\ run.argv \in {"", "all"}
    /\ run' = [run EXCEPT !.pc = "loop"]
    /\ UNCHANGED <<files, call, disk, fetched, heap, procs>>

\* fetch_all, lines 29-40: one pass of the loop.  No fetcher of the list
\* lets an exception out, so the except branch adds nothing here.
FetchAllStep(answer, now) ==
    /\ run.pc = "loop" /\ run.i <= Len(FetchAllProviders)
    /\ answer \in FetchAnswers(FetchAllProviders[run.i])
    /\ LET provider == FetchAllProviders[run.i]
           result == RunFetcher(provider, answer, now, files[provider])
           success == ~result.raised /\ Truthy(result.ret)
       IN  /\ files' = [files EXCEPT ![provider] = result.file]
           /\ call' = [op |-> "fetch_provider", provider |-> provider,
                       ret |-> result.ret, raised |-> result.raised,
                       wrote |-> result.wrote,
                       before |-> files[provider], after |-> result.file]
           /\ run' = [run EXCEPT
                         !.i = @ + 1,
                         !.attempted = Append(@, [provider |-> provider,
                                                  ret |-> result.ret,
                                                  raised |-> result.raised]),
                         !.written = IF result.wrote THEN @ \cup {provider} ELSE @,
                         !.successful = IF success THEN Append(@, provider) ELSE @,
                         !.failed = IF success THEN @ ELSE Append(@, provider)]
    /\ UNCHANGED <<disk, fetched, heap, procs>>

\* fetch_all, lines 42-44: the hint, and the return of None.  When main
\* called fetch_provider("all"), that call returns None and main prints its
\* own hint (lines 570-572).
FetchAllEnd ==
    /\ run.pc = "loop" /\ run.i > Len(FetchAllProviders)
    /\ run' = [run EXCEPT !.pc = "done",
                          !.hinted = run.failed # <<>> \/ run.argv = "all"]
    /\ call' = IF run.argv = "all"
               THEN [op |-> "fetch_provider", provider |-> "all", ret |-> "None",
                     raised |-> FALSE, wrote |-> FALSE,
                     before |-> NoFile, after |-> NoFile]
               ELSE call
    /\ UNCHANGED <<files, disk, fetched, heap, procs>>

NextFetch ==
    \/ MainHelp
    \/ MainFetchOther
    \/ FetchAllStart
    \/ FetchAllEnd
    \/ \E answer \in AllFetchAnswers, now \in Timestamps :
          MainFetchProvider(answer, now)
    \/ \E answer \in AllFetchAnswers, now \in Timestamps :
          FetchAllStep(answer, now)

SpecFetch == InitFetch /\ [][NextFetch]_vars

\* ------------------------------ extract_all_litellm_providers: extract_all
\*
\* One run of LiteLLMExtractor.extract_all: the database is fetched, the
\* providers are collected from its model ids, and _process_provider runs
\* for each in sorted order.  A model id is its part before the first "/"
\* (empty when it has no "/") and the rest.  files holds the files by name.

\* The text of a model id.
IdText(model_id) ==
    IF model_id.prefix = "" THEN model_id.name
    ELSE model_id.prefix \o "/" \o model_id.name

\* "/" in model_id.
HasSlash(model_id) == model_id.prefix # ""

\* The model ids of the database: names of the upstream database, one with
\* a capital, and its "sample_spec" entry.
DataIds ==
    { [prefix |-> "", name |-> "gpt-4o"],
      [prefix |-> "together_ai", name |-> "llama-2-7b"],
      [prefix |-> "gemini", name |-> "gemini-pro"],
      [prefix |-> "groq", name |-> "llama3-8b"],
      [prefix |-> "Groq", name |-> "llama3-8b"],
      [prefix |-> "vertex_ai-text-models", name |-> "text-bison"],
      [prefix |-> "", name |-> "sample_spec"],
      [prefix |-> "openai", name |-> "gpt-4o"],
      [prefix |-> "", name |-> "babbage-002"] }

\* model_id.startswith(word), for the ids above and the words the script
\* tests: the test is on the first part of the id, which no word outruns.
StartsWith(model_id, word) ==
    <<IF HasSlash(model_id) THEN model_id.prefix ELSE model_id.name, word>> \in
        { <<"gpt-4o", "gpt">>, <<"gemini", "gemini">>, <<"babbage-002", "babbage">> }

\* str.lower() on the first part of an id (strip() finds no blanks there).
Lower(text) == IF text = "Groq" THEN "groq" ELSE text

\* _extract_providers, lines 58-79: the provider an id names.
NamedProvider(model_id) ==
    IF HasSlash(model_id) THEN model_id.prefix
    ELSE IF StartsWith(model_id, "gpt") THEN "openai"
    ELSE IF StartsWith(model_id, "claude") THEN "anthropic"
    ELSE IF StartsWith(model_id, "gemini") THEN "google"
    ELSE IF StartsWith(model_id, "llama") THEN "meta"
    ELSE IF StartsWith(model_id, "mistral") THEN "mistral"
    ELSE IF StartsWith(model_id, "command") THEN "cohere"
    ELSE IF StartsWith(model_id, "embed") THEN "cohere"
    ELSE IF StartsWith(model_id, "text-") \/ StartsWith(model_id, "davinci") THEN "openai"
    ELSE "unknown"

\* _extract_providers, lines 85-129: provider_map, whose other keys map to
\* themselves, as does a name that is no key.
ProviderMap(provider) ==
    CASE provider \in {"gemini", "palm"} -> "google"
      [] provider = "together_ai" -> "together"
      [] provider = "fireworks_ai" -> "fireworks"
      [] provider \in {"mistralai", "text-completion-codestral"} -> "mistral"
      [] provider = "cohere_chat" -> "cohere"
      [] provider = "vertex" -> "vertex_ai"
      [] provider = "nvidia_nim" -> "nvidia"
      [] provider \in {"text-completion-openai", "chat-completion-openai",
                       "completion"} -> "openai"
      [] OTHER -> provider

\* LiteLLMExtractor._extract_providers.
ExtractProviders(data) ==
    {ProviderMap(Lower(NamedProvider(model_id))) : model_id \in DOMAIN data}

\* LiteLLMExtractor._belongs_to_provider.
BelongsToProvider(model_id, provider) ==
    \/ HasSlash(model_id) /\ model_id.prefix = provider
    \/ /\ provider = "openai"
       /\ \/ \E w \in {"gpt", "text-", "davinci", "babbage", "ada", "curie"} :
                StartsWith(model_id, w)
          \/ Contains(IdText(model_id), "turbo") /\ ~HasSlash(model_id)
    \/ provider = "anthropic" /\ StartsWith(model_id, "claude") /\ ~HasSlash(model_id)
    \/ /\ provider = "google"
       /\ \E w \in {"gemini", "palm", "bison"} : StartsWith(model_id, w)
    \/ provider = "meta" /\ StartsWith(model_id, "llama") /\ ~HasSlash(model_id)
    \/ /\ provider = "mistral"
       /\ \E w \in {"mistral", "mixtral", "codestral"} : StartsWith(model_id, w)
    \/ /\ provider = "cohere"
       /\ \E w \in {"command", "embed"} : StartsWith(model_id, w)
    \/ /\ provider = "unknown"
       /\ ~HasSlash(model_id)
       /\ ~\E w \in {"gpt", "claude", "gemini", "llama", "mistral", "command",
                      "embed", "text-", "davinci"} : StartsWith(model_id, w)

\* LiteLLMExtractor._clean_model_id.
CleanModelId(model_id, provider) ==
    IF HasSlash(model_id) /\ model_id.prefix = provider THEN model_id.name
    ELSE IdText(model_id)

\* LiteLLMExtractor._extract_model_info: the info built from an entry of the
\* database, None when nothing is left.  The flags of an entry are JSON
\* booleans; a cost is written as Python prints the float, and so is the
\* product float(cost) * 1_000_000 of lines 245 and 247, which is not always
\* the decimal product.
ExtractModelInfo(model_data) ==
    LET per_million == [cost \in {"1e-07", "1.5e-07", "3e-06"} |->
                           CASE cost = "1e-07" -> "0.09999999999999999"
                             [] cost = "1.5e-07" -> "0.15"
                             [] cost = "3e-06" -> "3.0"]
        pricing ==
            [key \in {k \in {"input"} : "input_cost_per_token" \in DOMAIN model_data}
                     \cup
                     {k \in {"output"} : "output_cost_per_token" \in DOMAIN model_data} |->
                IF key = "input" THEN per_million[model_data.input_cost_per_token]
                ELSE per_million[model_data.output_cost_per_token]]
        capabilities ==
            (IF Get(model_data, "supports_streaming", TRUE) = TRUE
             THEN <<"streaming">> ELSE <<>>) \o
            (IF Get(model_data, "supports_function_calling", FALSE) = TRUE
             THEN <<"function_calling">> ELSE <<>>) \o
            (IF Get(model_data, "supports_vision", FALSE) = TRUE
             THEN <<"vision">> ELSE <<>>)
        copied == {"mode", "deprecated", "deprecation_date", "description",
                   "created_at", "updated_at"} \cap DOMAIN model_data
        keys == {k \in {"context_window"} :
                    {"max_tokens", "max_input_tokens"} \cap DOMAIN model_data # {}}
                \cup
                {k \in {"max_output_tokens"} :
                    {"max_output_tokens", "max_completion_tokens"}
                        \cap DOMAIN model_data # {}}
                \cup {k \in {"pricing"} : DOMAIN pricing # {}}
                \cup copied
                \cup {k \in {"capabilities"} : capabilities # <<>>}
        info == [key \in keys |->
                    CASE key = "context_window" ->
                            IF "max_tokens" \in DOMAIN model_data
                            THEN model_data.max_tokens
                            ELSE model_data.max_input_tokens
                      [] key = "max_output_tokens" ->
                            IF "max_output_tokens" \in DOMAIN model_data
                            THEN model_data.max_output_tokens
                            ELSE model_data.max_completion_tokens
                      [] key = "pricing" -> pricing
                      [] key = "capabilities" -> capabilities
                      [] OTHER -> model_data[key]]
    IN  IF DOMAIN info = {} THEN Null ELSE Rec(info)

\* _process_provider, lines 144-146: provider_models.
ProviderModels(provider, data) ==
    {model_id \in DOMAIN data : BelongsToProvider(model_id, provider)}

\* _process_provider, lines 153-159: the models that yield an info.
KeptModels(provider, data) ==
    {model_id \in ProviderModels(provider, data) : ExtractModelInfo(data[model_id]).map}

\* _process_provider, lines 153-159: models.  When two ids have the same
\* cleaned id, the one later in the database stays; the order is that of
\* the upstream file, so it can be each of them.
ProcessedModels(provider, data) ==
    LET kept == KeptModels(provider, data)
        cleaned == {CleanModelId(model_id, provider) : model_id \in kept}
        lasts == {last \in [cleaned -> kept] :
                     \A cleaned_id \in cleaned :
                         CleanModelId(last[cleaned_id], provider) = cleaned_id}
    IN  {[cleaned_id \in cleaned |-> ExtractModelInfo(data[last[cleaned_id]])] :
            last \in lasts}

\* _save_config, line 362: re.sub(r'[^a-z0-9_]', '_', provider.lower()).
FileName(provider) ==
    IF provider = "vertex_ai-text-models" THEN "vertex_ai_text_models" ELSE provider

\* sorted(providers), line 42: the order of the provider names found here.
ProviderOrder ==
    <<"google", "groq", "openai", "together", "unknown", "vertex_ai-text-models">>

FirstSorted(providers) ==
    ProviderOrder[CHOOSE i \in 1..Len(ProviderOrder) :
                     /\ ProviderOrder[i] \in providers
                     /\ \A j \in 1..(i - 1) : ProviderOrder[j] \notin providers]

\* What an entry of the database says about a model.
DataEntries ==
    {[max_tokens |-> 4096],
     [supports_streaming |-> FALSE],
     [supports_streaming |-> FALSE, max_completion_tokens |-> 512,
      deprecated |-> TRUE],
     [max_input_tokens |-> 8192, max_output_tokens |-> 1024,
      max_completion_tokens |-> 512, input_cost_per_token |-> "1e-07",
      output_cost_per_token |-> "1.5e-07", mode |-> "chat",
      supports_function_calling |-> TRUE, supports_vision |-> FALSE]}

\* The databases: up to MaxModels of the ids, each with an entry.
MaxModels == 3

Databases ==
    UNION {[ids -> DataEntries] :
              ids \in {some \in SUBSET DataIds : Cardinality(some) <= MaxModels}}

\* The ways the request of line 31 ends.
DatabaseAnswers == {"exception", "status", "ok"}

InitExtract ==
    /\ files = [name \in {FileName(provider) : provider \in SetOf(ProviderOrder)} |->
                   NoFile]
    /\ run \in {[pc |-> "start", data |-> data, providers |-> {}, todo |-> {},
                  selected |-> [provider \in {} |-> {}],
                  saves |-> [provider \in {} |-> 0],
                  stats |-> [total_models |-> 0, providers_processed |-> 0,
                             models |-> [provider \in {} |-> 0]]] :
                 data \in Databases}
    /\ call = NoCall
    /\ disk = Unused /\ fetched = Unused /\ heap = Unused /\ procs = Unused

\* extract_all, lines 30-38 and 47-49: the request, and the providers found;
\* a failed request ends the script with exit status 1.
FetchDatabase(answer) ==
    /\ run.pc = "start"
    /\ LET providers == ExtractProviders(run.data)
       IN  run' = IF answer = "ok"
                  THEN [run EXCEPT
                          !.pc = "loop", !.providers = providers, !.todo = providers,
                          !.selected = [provider \in providers |-> {}],
                          !.saves = [provider \in providers |-> 0],
                          !.stats = [total_models |-> Cardinality(DOMAIN run.data),
                                     providers_processed |-> 0,
                                     models |-> [provider \in providers |-> 0]]]
                  ELSE [run EXCEPT !.pc = "exit"]
    /\ UNCHANGED <<files, call, disk, fetched, heap, procs>>

\* extract_all, lines 41-42: _process_provider for the next provider.
ProcessProvider(now, models, default) ==
    /\ run.pc = "loop" /\ run.todo # {}
    /\ LET provider == FirstSorted(run.todo)
           provider_models == ProviderModels(provider, run.data)
           saved == DOMAIN models # {}
           config == ExtractorConfig(provider, models, now, default)
       IN  /\ models \in ProcessedModels(provider, run.data)
           /\ default \in IF saved THEN ExtractorDefaultChoices(provider, models)
                           ELSE {""}
           /\ files' = IF saved
                       THEN [files EXCEPT ![FileName(provider)] =
                               [exists |-> TRUE, doc |-> ExtractorSavedDoc(config)]]
                       ELSE files
           /\ run' = [run EXCEPT
                         !.todo = @ \ {provider},
                         !.selected[provider] = provider_models,
                         !.saves[provider] = IF saved THEN @ + 1 ELSE @,
                         !.stats.providers_processed = IF saved THEN @ + 1 ELSE @,
                         !.stats.models[provider] =
                             Cardinality(KeptModels(provider, run.data))]
    /\ UNCHANGED <<call, disk, fetched, heap, procs>>

\* extract_all, line 45: _show_statistics, which only prints.
ShowStatistics ==
    /\ run.pc = "loop" /\ run.todo = {}
    /\ run' = [run EXCEPT !.pc = "done"]
    /\ UNCHANGED <<files, call, disk, fetched, heap, procs>>

NextExtract ==
    \/ \E answer \in DatabaseAnswers : FetchDatabase(answer)
    \/ \E now \in Timestamps,
          models \in UNION {ProcessedModels(provider, run.data) :
                               provider \in SetOf(ProviderOrder)} :
          \E default \in {""} \cup DOMAIN models :
              ProcessProvider(now, models, default)
    \/ ShowStatistics

SpecExtract == InitExtract /\ [][NextExtract]_vars

\* -------------------------------------------------- the generated defaults
\*
\* _get_default_model (extract_all_litellm_providers) and the default
\* choice of write_provider_config (extract_all_providers), each applied to
\* a provider's models: fetched holds the models, run the provider, call the
\* last choice.

\* Model names with and without the words the two functions look for.
DefaultIds == {"gpt-4o-mini", "gpt-4o", "legacy-base", "old-latest"}

\* The models maps are over these names, a model deprecated or not.
InitDefault ==
    /\ fetched \in UNION {[ids -> {Rec([context_window |-> 4096]),
                                   Rec([context_window |-> 4096,
                                        deprecated |-> TRUE])}] :
                            ids \in SUBSET DefaultIds}
    /\ run \in {[provider |-> provider] : provider \in {"openai", "groq"}}
    /\ call = [op |-> "init", default |-> "None"]
    /\ disk = Unused /\ heap = Unused /\ files = Unused /\ procs = Unused

\* default_model = self._get_default_model(provider, models); None when
\* there is no model.
GetDefaultModel(default) ==
    /\ default \in IF DOMAIN fetched = {} THEN {"None"}
                   ELSE ExtractorDefaultChoices(run.provider, fetched)
    /\ call' = [op |-> "_get_default_model", default |-> default]
    /\ UNCHANGED <<disk, fetched, heap, files, procs, run>>

\* write_provider_config, lines 140-156: config, with its default_model.
WriteDefault(default) ==
    /\ default \in IF DOMAIN fetched = {} THEN {"None"} ELSE DefaultChoices(fetched)
    /\ call' = [op |-> "write_provider_config",
                default |-> Get(WrittenConfig(run.provider, fetched, default),
                                "default_model", "None")]
    /\ UNCHANGED <<disk, fetched, heap, files, procs, run>>

NextDefault ==
    \/ \E default \in DefaultIds \cup {"None"} : GetDefaultModel(default)
    \/ \E default \in DefaultIds \cup {"None"} : WriteDefault(default)

SpecDefault == InitDefault /\ [][NextDefault]_vars

\* ------------------------------ fetch_provider_capabilities.py: the texts
\*
\* The Elixir file is text: a sequence of characters.  Positions count from
\* 0 as in Python, and -1 is "not found".

\* The characters of the names that are written into the text.
NameChars(name) ==
    CASE name = "openai" ->
            <<"o", "p", "e", "n", "a", "i">>
      [] name = "anthropic" ->
            <<"a", "n", "t", "h", "r", "o", "p", "i", "c">>
      [] name = "assistants" ->
            <<"a", "s", "s", "i", "s", "t", "a", "n", "t", "s">>
      [] name = "assistants_api" ->
            <<"a", "s", "s", "i", "s", "t", "a", "n", "t", "s", "_", "a", "p",
              "i">>
      [] name = "audio" ->
            <<"a", "u", "d", "i", "o">>
      [] name = "batch_operations" ->
            <<"b", "a", "t", "c", "h", "_", "o", "p", "e", "r", "a", "t", "i",
              "o", "n", "s">>
      [] name = "batch_processing" ->
            <<"b", "a", "t", "c", "h", "_", "p", "r", "o", "c", "e", "s", "s",
              "i", "n", "g">>
      [] name = "chat" ->
            <<"c", "h", "a", "t">>
      [] name = "code_execution" ->
            <<"c", "o", "d", "e", "_", "e", "x", "e", "c", "u", "t", "i", "o",
              "n">>
      [] name = "code_interpreter" ->
            <<"c", "o", "d", "e", "_", "i", "n", "t", "e", "r", "p", "r", "e",
              "t", "e", "r">>
      [] name = "completions" ->
            <<"c", "o", "m", "p", "l", "e", "t", "i", "o", "n", "s">>
      [] name = "computer_use" ->
            <<"c", "o", "m", "p", "u", "t", "e", "r", "_", "u", "s", "e">>
      [] name = "context_caching" ->
            <<"c", "o", "n", "t", "e", "x", "t", "_", "c", "a", "c", "h", "i",
              "n", "g">>
      [] name = "cost_tracking" ->
            <<"c", "o", "s", "t", "_", "t", "r", "a", "c", "k", "i", "n", "g">>
      [] name = "document_understanding" ->
            <<"d", "o", "c", "u", "m", "e", "n", "t", "_", "u", "n", "d", "e",
              "r", "s", "t", "a", "n", "d", "i", "n", "g">>
      [] name = "dynamic_model_listing" ->
            <<"d", "y", "n", "a", "m", "i", "c", "_", "m", "o", "d", "e", "l",
              "_", "l", "i", "s", "t", "i", "n", "g">>
      [] name = "file_uploads" ->
            <<"f", "i", "l", "e", "_", "u", "p", "l", "o", "a", "d", "s">>
      [] name = "files" ->
            <<"f", "i", "l", "e", "s">>
      [] name = "fine_tuning" ->
            <<"f", "i", "n", "e", "_", "t", "u", "n", "i", "n", "g">>
      [] name = "fine_tuning_api" ->
            <<"f", "i", "n", "e", "_", "t", "u", "n", "i", "n", "g", "_", "a",
              "p", "i">>
      [] name = "function_calling" ->
            <<"f", "u", "n", "c", "t", "i", "o", "n", "_", "c", "a", "l", "l",
              "i", "n", "g">>
      [] name = "json_mode" ->
            <<"j", "s", "o", "n", "_", "m", "o", "d", "e">>
      [] name = "latex_rendering" ->
            <<"l", "a", "t", "e", "x", "_", "r", "e", "n", "d", "e", "r", "i",
              "n", "g">>
      [] name = "logprobs" ->
            <<"l", "o", "g", "p", "r", "o", "b", "s">>
      [] name = "long_context" ->
            <<"l", "o", "n", "g", "_", "c", "o", "n", "t", "e", "x", "t">>
      [] name = "messages" ->
            <<"m", "e", "s", "s", "a", "g", "e", "s">>
      [] name = "moderation" ->
            <<"m", "o", "d", "e", "r", "a", "t", "i", "o", "n">>
      [] name = "multiple_images" ->
            <<"m", "u", "l", "t", "i", "p", "l", "e", "_", "i", "m", "a", "g",
              "e", "s">>
      [] name = "parallel_function_calling" ->
            <<"p", "a", "r", "a", "l", "l", "e", "l", "_", "f", "u", "n", "c",
              "t", "i", "o", "n", "_", "c", "a", "l", "l", "i", "n", "g">>
      [] name = "prompt_caching" ->
            <<"p", "r", "o", "m", "p", "t", "_", "c", "a", "c", "h", "i", "n",
              "g">>
      [] name = "rate_limiting_headers" ->
            <<"r", "a", "t", "e", "_", "l", "i", "m", "i", "t", "i", "n", "g",
              "_", "h", "e", "a", "d", "e", "r", "s">>
      [] name = "reasoning" ->
            <<"r", "e", "a", "s", "o", "n", "i", "n", "g">>
      [] name = "response_format" ->
            <<"r", "e", "s", "p", "o", "n", "s", "e", "_", "f", "o", "r", "m",
              "a", "t">>
      [] name = "retrieval" ->
            <<"r", "e", "t", "r", "i", "e", "v", "a", "l">>
      [] name = "runs" ->
            <<"r", "u", "n", "s">>
      [] name = "seed_control" ->
            <<"s", "e", "e", "d", "_", "c", "o", "n", "t", "r", "o", "l">>
      [] name = "streaming" ->
            <<"s", "t", "r", "e", "a", "m", "i", "n", "g">>
      [] name = "structured_outputs" ->
            <<"s", "t", "r", "u", "c", "t", "u", "r", "e", "d", "_", "o", "u",
              "t", "p", "u", "t", "s">>
      [] name = "system_messages" ->
            <<"s", "y", "s", "t", "e", "m", "_", "m", "e", "s", "s", "a", "g",
              "e", "s">>
      [] name = "threads" ->
            <<"t", "h", "r", "e", "a", "d", "s">>
      [] name = "tool_use" ->
            <<"t", "o", "o", "l", "_", "u", "s", "e">>
      [] name = "usage_tracking" ->
            <<"u", "s", "a", "g", "e", "_", "t", "r", "a", "c", "k", "i", "n",
              "g">>
      [] name = "vector_stores" ->
            <<"v", "e", "c", "t", "o", "r", "_", "s", "t", "o", "r", "e", "s">>
      [] name = "vision" ->
            <<"v", "i", "s", "i", "o", "n">>
      [] name = "xml_mode" ->
            <<"x", "m", "l", "_", "m", "o", "d", "e">>

\* f"{provider}: %__MODULE__.ProviderInfo{{", line 303.
ProviderMarker(provider) ==
    NameChars(provider) \o
    <<":", " ", "%", "_", "_", "M", "O", "D", "U", "L", "E", "_", "_", ".",
      "P", "r", "o", "v", "i", "d", "e", "r", "I", "n", "f", "o", "{">>

\* "features: [" and "endpoints: [", lines 309 and 335.
FeaturesMarker ==
    <<"f", "e", "a", "t", "u", "r", "e", "s", ":", " ", "[">>

EndpointsMarker ==
    <<"e", "n", "d", "p", "o", "i", "n", "t", "s", ":", " ", "[">>

\* content.find(sub, start).
Find(content, sub, start) ==
    LET hits == {i \in start..(Len(content) - Len(sub)) :
                    SubSeq(content, i + 1, i + Len(sub)) = sub}
    IN  IF hits = {} THEN -1
        ELSE CHOOSE i \in hits : \A j \in hits : i <= j

\* content[a:b] for positions that are not negative; a position past the
\* end is the end, and content[a:] is Slice(content, a, Len(content)).
Slice(content, a, b) ==
    SubSeq(content, a + 1, IF b < Len(content) THEN b ELSE Len(content))

\* Lines 322-331: the new features text, four names to a line, with the
\* breaks "\n        " and the closing "\n      ]".
NewFeaturesStr(new_features) ==
    LET break == <<"\n", " ", " ", " ", " ", " ", " ", " ", " ">>
        close == <<"\n", " ", " ", " ", " ", " ", " ", "]">>
        RECURSIVE FeaturesFrom(_)
        FeaturesFrom(i) ==
            IF i >= Len(new_features) THEN <<>>
            ELSE (IF i > 0 /\ i % 4 = 0 THEN break ELSE <<>>) \o
                 <<":">> \o NameChars(new_features[i + 1]) \o
                 (IF i < Len(new_features) - 1 THEN <<",", " ">> ELSE close) \o
                 FeaturesFrom(i + 1)
    IN  FeaturesMarker \o break \o FeaturesFrom(0)

\* Lines 339-341: "endpoints: [" + ", ".join(f":{e}" ...) + "]".
NewEndpointsStr(new_endpoints) ==
    LET RECURSIVE JoinedNames(_)
        JoinedNames(i) ==
            IF i > Len(new_endpoints) THEN <<>>
            ELSE (IF i > 1 THEN <<",", " ">> ELSE <<>>) \o
                 <<":">> \o NameChars(new_endpoints[i]) \o JoinedNames(i + 1)
    IN  EndpointsMarker \o JoinedNames(1) \o <<"]">>

\* set(caps['features']) and set(caps['endpoints']), lines 321 and 339.  A
\* list of all_capabilities is either a list the script writes out (lines
\* 173, 223-226), kept as the list it is, or list(s) of a set s of names
\* (lines 152-153, 216), whose order is that of the string hashes of the
\* process and differs from run to run: of such a list the names are kept,
\* as a set, and hashed says so.
NamesOf(list) == IF list.hashed THEN list.names ELSE SetOf(list.names)

\* update_provider_capabilities_ex, lines 298-346: the loop over
\* all_capabilities.items(), a list of provider and caps in the order of
\* the dict; each pass takes the text so far to the text after it.  caps is
\* a dict with the keys features and endpoints, each a list as NamesOf
\* reads it.
RECURSIVE UpdatedContent(_, _, _)
UpdatedContent(content, all_capabilities, i) ==
    IF i > Len(all_capabilities) THEN content
    ELSE
    LET provider == all_capabilities[i].provider
        caps == all_capabilities[i].caps
        provider_start == Find(content, ProviderMarker(provider), 0)
        features_start == Find(content, FeaturesMarker, provider_start)
        features_end == Find(content, <<"]">>, features_start)
        new_features_str == NewFeaturesStr(SortedList(NamesOf(caps["features"])))
        endpoints_start == Find(content, EndpointsMarker, provider_start)
        endpoints_end == Find(content, <<"]">>, endpoints_start)
        new_endpoints_str == NewEndpointsStr(SortedList(NamesOf(caps["endpoints"])))
        with_endpoints ==
            IF /\ "endpoints" \in DOMAIN caps
               /\ endpoints_start # -1
               /\ endpoints_start < features_start
            THEN Slice(content, 0, endpoints_start) \o new_endpoints_str \o
                 Slice(content, endpoints_end + 1, Len(content))
            ELSE content
        updated ==
            IF DOMAIN caps = {} \/ "features" \notin DOMAIN caps THEN content
            ELSE IF provider_start = -1 THEN content
            ELSE IF features_start = -1 THEN content
            ELSE IF features_end = -1 THEN content
            ELSE Slice(with_endpoints, 0, features_start) \o new_features_str \o
                 Slice(with_endpoints, features_end + 1, Len(with_endpoints))
    IN  UpdatedContent(updated, all_capabilities, i + 1)

\* detect_capabilities_from_model_id, lines 51-56: the set capabilities,
\* from feature_mappings (lines 26-47: pattern and features, per provider).
DetectedSet(provider, model_id) ==
    LET feature_mappings ==
            CASE provider = "openai" ->
                    { <<"gpt", {"streaming", "function_calling", "system_messages",
                                "json_mode"}>>,
                      <<"gpt-4", {"vision"}>>,
                      <<"gpt-4o", {"vision", "structured_outputs"}>>,
                      <<"o1", {"reasoning", "long_context"}>>,
                      <<"dall-e", {"image_generation"}>>,
                      <<"whisper", {"speech_recognition"}>>,
                      <<"tts", {"speech_synthesis"}>>,
                      <<"embedding", {"embeddings"}>> }
              [] provider = "anthropic" ->
                    { <<"claude", {"streaming", "function_calling", "system_messages",
                                   "json_mode", "xml_mode"}>>,
                      <<"claude-3", {"vision", "structured_outputs", "long_context"}>>,
                      <<"claude-3-5", {"computer_use", "latex_rendering",
                                       "document_understanding"}>> }
              [] provider = "gemini" ->
                    { <<"gemini", {"streaming", "function_calling", "system_messages",
                                   "json_mode", "vision"}>>,
                      <<"gemini-1.5", {"long_context", "video_understanding",
                                       "audio_input", "document_understanding"}>>,
                      <<"gemini-2", {"code_execution", "grounding"}>> }
              [] OTHER -> {}
    IN  UNION {mapping[2] : mapping \in {m \in feature_mappings :
                                            Contains(model_id, m[1])}}

\* list(capabilities), line 58: the elements of a set of strings in the
\* order of their hashes, which differs from one interpreter run to the
\* next (string hashes are salted per process); every order can come out.
ListOfSet(S) ==
    {list \in [1..Cardinality(S) -> S] :
        \A i, j \in 1..Cardinality(S) : i # j => list[i] # list[j]}

\* ------------------ fetch_provider_capabilities.py: the CapabilityFetcher
\*
\* files holds lib/ex_llm/provider_capabilities.ex (ex) and its sibling
\* provider_capabilities.ex.new (new); run holds how the Elixir file was
\* laid out, and the results of detect_capabilities_from_model_id on one
\* provider and model id, each result from a run of the script.

\* How many times the script is run on the same model id.
MaxRuns == 2

\* The text of the Elixir file (line 295), section by section: a provider's
\* marker, its endpoints and features lists in the order of the layout, and
\* the closing brace.
RECURSIVE FileText(_)
FileText(sections) ==
    LET section == Head(sections)
        SectionText ==
            ProviderMarker(section.provider) \o
            (CASE section.layout = "endpoints_first" ->
                     section.endpoints \o <<",", " ">> \o section.features
               [] section.layout = "features_first" ->
                     section.features \o <<",", " ">> \o section.endpoints
               [] section.layout = "features_only" -> section.features) \o
            <<"}", "\n">>
    IN  IF sections = <<>> THEN <<>>
        ELSE SectionText \o FileText(Tail(sections))

\* A fetcher before update_provider_capabilities_ex: the Elixir file is
\* hand-written, with one endpoint and one feature in each section, or
\* missing; the model ids whose capabilities are detected match one
\* pattern, none, or a pattern of another provider.
InitCaps ==
    LET HandSection(provider, layout) ==
            [provider |-> provider, layout |-> layout,
             endpoints |-> EndpointsMarker \o <<":">> \o NameChars("chat") \o <<"]">>,
             features |-> FeaturesMarker \o <<":">> \o NameChars("vision") \o <<"]">>]
        Layouts == {"endpoints_first", "features_first", "features_only"}
        ElixirFiles ==
            {<<>>} \cup
            {<<HandSection("openai", l)>> : l \in Layouts} \cup
            {<<HandSection("openai", l), HandSection("anthropic", m)>> :
                l, m \in Layouts}
        DetectInputs ==
            {[provider |-> "openai", model_id |-> "o1"],
             [provider |-> "openai", model_id |-> "dall-e-3"],
             [provider |-> "gemini", model_id |-> "o1"]}
        NoElixirFile == [exists |-> FALSE, content |-> <<>>]
    IN  /\ run \in {[sections |-> s, provider |-> d.provider,
                     model_id |-> d.model_id, detected |-> <<>>] :
                       s \in ElixirFiles, d \in DetectInputs}
        /\ files \in {[ex |-> [exists |-> TRUE, content |-> FileText(run.sections)],
                      new |-> NoElixirFile],
                     [ex |-> NoElixirFile, new |-> NoElixirFile]}
        /\ call = [op |-> "init", all_capabilities |-> <<>>, raised |-> FALSE]
        /\ disk = Unused /\ fetched = Unused /\ heap = Unused /\ procs = Unused

\* Faulty variant: the rewritten text replaces the Elixir file itself.
UpdateElixirInPlace(all_capabilities) ==
    /\ files.ex.exists
    /\ files' = [files EXCEPT
                   !.ex.content = UpdatedContent(files.ex.content, all_capabilities, 1)]
    /\ call' = [op |-> "update_provider_capabilities_ex",
                all_capabilities |-> all_capabilities, raised |-> FALSE]
    /\ UNCHANGED <<run, disk, fetched, heap, procs>>

\* CapabilityFetcher.update_provider_capabilities_ex(all_capabilities):
\* open(..., 'r') raises when the Elixir file is missing.
UpdateProviderCapabilitiesEx(all_capabilities) ==
    /\ files' = IF files.ex.exists
                THEN [files EXCEPT
                        !.new = [exists |-> TRUE,
                                 content |-> UpdatedContent(files.ex.content,
                                                            all_capabilities, 1)]]
                ELSE files
    /\ call' = [op |-> "update_provider_capabilities_ex",
                all_capabilities |-> all_capabilities,
                raised |-> ~files.ex.exists]
    /\ UNCHANGED <<run, disk, fetched, heap, procs>>

\* detect_capabilities_from_model_id(provider, model_id), in one more run
\* of the script.
DetectCapabilities(capabilities) ==
    /\ Len(run.detected) < MaxRuns
    /\ capabilities \in ListOfSet(DetectedSet(run.provider, run.model_id))
    /\ run' = [run EXCEPT !.detected = Append(@, capabilities)]
    /\ UNCHANGED <<files, call, disk, fetched, heap, procs>>

\* main with --update-elixir, lines 405-407, and detect_capabilities_from_
\* model_id in one more run.  all_capabilities is the dict that
\* fetch_all_capabilities returns, a list of provider and caps in the order
\* it is filled: a provider is in it when its fetcher returned a dict that
\* is not empty (line 389), and update_provider_capabilities_ex is called
\* when the dict has a provider (line 406).  A fetcher returns {} without an
\* API key, as fetch_gemini_capabilities does here.  fetch_openai_capabilities
\* returns list(set) of its endpoints and of its features: of no name on a
\* status other than 200, of the known names when no model is listed, and
\* of them, the chat endpoint and what is detected for o1 when o1 is
\* listed.  fetch_anthropic_capabilities returns the endpoints as written
\* out, with the short list of features when the request fails, and with
\* list(set) of the known features otherwise.
NextCaps ==
    LET Written(list) == [hashed |-> FALSE, names |-> list]
        ListOfSomeSet(names) == [hashed |-> TRUE, names |-> names]
        openai_endpoints ==
            {"completions", "fine_tuning", "files", "assistants", "threads",
             "runs", "vector_stores"}
        openai_features ==
            {"streaming", "function_calling", "cost_tracking",
             "usage_tracking", "dynamic_model_listing", "batch_operations",
             "file_uploads", "rate_limiting_headers", "system_messages",
             "json_mode", "tool_use", "parallel_function_calling",
             "assistants_api", "code_interpreter", "retrieval",
             "fine_tuning_api", "moderation", "logprobs", "seed_control",
             "response_format"}
        anthropic_fallback ==
            <<"streaming", "function_calling", "vision", "tool_use",
              "system_messages", "json_mode", "xml_mode">>
        anthropic_features ==
            {"streaming", "function_calling", "cost_tracking",
             "usage_tracking", "rate_limiting_headers", "system_messages",
             "vision", "tool_use", "context_caching", "computer_use",
             "structured_outputs", "json_mode", "xml_mode",
             "multiple_images", "document_understanding", "code_execution",
             "latex_rendering", "long_context", "prompt_caching",
             "batch_processing"}
        OpenaiCaps ==
            { [endpoints |-> ListOfSomeSet({}), features |-> ListOfSomeSet({})],
              [endpoints |-> ListOfSomeSet(openai_endpoints),
               features |-> ListOfSomeSet(openai_features)],
              [endpoints |-> ListOfSomeSet({"chat"} \cup openai_endpoints),
               features |-> ListOfSomeSet(DetectedSet("openai", "o1") \cup
                                          openai_features)] }
        AnthropicCaps ==
            { [endpoints |-> Written(<<"chat", "messages">>),
               features |-> Written(anthropic_fallback)],
              [endpoints |-> Written(<<"chat", "messages">>),
               features |-> ListOfSomeSet(anthropic_features)] }
        AllCapabilities ==
            {<<[provider |-> "openai", caps |-> c]>> : c \in OpenaiCaps} \cup
            {<<[provider |-> "anthropic", caps |-> d]>> : d \in AnthropicCaps} \cup
            {<<[provider |-> "openai", caps |-> c],
               [provider |-> "anthropic", caps |-> d]>> :
                c \in OpenaiCaps, d \in AnthropicCaps}
    IN  \/ \E all_capabilities \in AllCapabilities :
              UpdateProviderCapabilitiesEx(all_capabilities)
        \/ \E capabilities \in ListOfSet(DetectedSet(run.provider, run.model_id)) :
              DetectCapabilities(capabilities)

SpecCaps == InitCaps /\ [][NextCaps]_vars

\* ------------------------------------------------ sync_litellm_models: main
\*
\* fetched holds the LiteLLM data, model id to model data; call holds the
\* groups process_models_by_provider returned and whether the script ended
\* on an exception; files holds the provider files.  A cost per token is counted
\* in units of 1e-11 dollars, a price per million tokens in units of 1e-4
\* dollars, the fourth decimal that round(..., 4) keeps.

PROVIDER_MAP ==
    [openai |-> "openai", anthropic |-> "anthropic", groq |-> "groq",
     gemini |-> "gemini", vertex_ai |-> "gemini", bedrock |-> "bedrock",
     openrouter |-> "openrouter", ollama |-> "ollama", ollama_chat |-> "ollama"]

\* round(cost * 1_000_000, 4), the cost in units of 1e-11 dollars a token as
\* the JSON database is parsed, the result in units of 1e-4 dollars: to the
\* nearest fourth decimal.  The float product of a cost ending in 5 lies just
\* above or just below the middle, so such a cost goes up or down by its
\* floats; ties_up lists, by cost \div 10, the ones below 1000 that go up, and
\* a cost ending in 5 from 1000 on is outside what is modelled.
PerMillion(cost) ==
    LET q == cost \div 10
        r == cost % 10
        ties_up == {0, 2, 6, 7, 10, 12, 13, 17, 18, 19, 20, 21, 23, 25, 26, 30,
                    31, 32, 36, 41, 42, 45, 46, 47, 51, 55, 56, 58, 59, 60, 64,
                    65, 68, 69, 71, 72, 74, 76, 78, 79, 81, 85, 87, 88, 89, 90,
                    94, 96, 98, 99}
    IN  CASE r < 5 -> q
          [] r > 5 -> q + 1
          [] r = 5 /\ cost < 1000 -> IF q \in ties_up THEN q + 1 ELSE q

\* convert_pricing(litellm_model): None unless a cost is above zero.
ConvertPricing(litellm_model) ==
    LET input_cost == Get(litellm_model, "input_cost_per_token", 0)
        output_cost == Get(litellm_model, "output_cost_per_token", 0)
    IN  IF input_cost > 0 \/ output_cost > 0
        THEN Rec([input |-> PerMillion(input_cost),
                  output |-> PerMillion(output_cost)])
        ELSE Null

\* convert_capabilities(litellm_model): the list capabilities, streaming
\* first for a chat model and then the names of CAPABILITY_MAP in its order,
\* none twice.  The empty list stands for the None of line 77 too: the
\* caller only tests whether the result is true.
ConvertCapabilities(litellm_model) ==
    LET CAPABILITY_MAP ==
            << <<"supports_function_calling", "function_calling">>,
               <<"supports_vision", "vision">>,
               <<"supports_audio_input", "audio_input">>,
               <<"supports_audio_output", "audio_output">>,
               <<"supports_prompt_caching", "prompt_caching">>,
               <<"supports_response_schema", "structured_output">>,
               <<"supports_system_messages", "system_messages">>,
               <<"supports_reasoning", "reasoning">>,
               <<"supports_web_search", "web_search">>,
               <<"supports_pdf_input", "pdf_input">>,
               <<"supports_parallel_function_calling", "parallel_function_calling">>,
               <<"supports_native_streaming", "streaming">>,
               <<"supports_tool_choice", "tool_choice">> >>
        RECURSIVE Converted(_, _)
        Converted(capabilities, i) ==
            IF i > Len(CAPABILITY_MAP) THEN capabilities
            ELSE LET lit_cap == CAPABILITY_MAP[i][1]
                     ex_cap == CAPABILITY_MAP[i][2]
                 IN  Converted(IF /\ Get(litellm_model, lit_cap, FALSE)
                                  /\ ex_cap \notin SetOf(capabilities)
                               THEN Append(capabilities, ex_cap)
                               ELSE capabilities,
                               i + 1)
    IN  Converted(IF "mode" \in DOMAIN litellm_model /\ litellm_model["mode"] = "chat"
                  THEN <<"streaming">> ELSE <<>>, 1)

\* Faulty variant: the groups are named as LiteLLM names the providers.
ProcessModelsUnmapped(litellm_data) ==
    LET kept == {model_id \in (DOMAIN litellm_data) \ {"sample_spec"} :
                    /\ "litellm_provider" \in DOMAIN litellm_data[model_id]
                    /\ litellm_data[model_id]["litellm_provider"] \in DOMAIN PROVIDER_MAP}
    IN  [provider \in {litellm_data[model_id]["litellm_provider"] : model_id \in kept} |->
            [model_id \in {k \in kept : litellm_data[k]["litellm_provider"] = provider} |->
                EmptyDict]]

\* process_models_by_provider(litellm_data): providers, a dict of ExLLM
\* provider to model id to model_config.
ProcessModelsByProvider(litellm_data) ==
    LET kept == {model_id \in (DOMAIN litellm_data) \ {"sample_spec"} :
                    /\ "litellm_provider" \in DOMAIN litellm_data[model_id]
                    /\ litellm_data[model_id]["litellm_provider"] # ""
                    /\ litellm_data[model_id]["litellm_provider"] \in DOMAIN PROVIDER_MAP}
        ex_provider(model_id) == PROVIDER_MAP[litellm_data[model_id]["litellm_provider"]]
        ModelConfig(model_data) ==
            LET window ==
                    IF "max_input_tokens" \in DOMAIN model_data
                    THEN Put(EmptyDict, "context_window", model_data["max_input_tokens"])
                    ELSE IF "max_tokens" \in DOMAIN model_data
                    THEN Put(EmptyDict, "context_window", model_data["max_tokens"])
                    ELSE EmptyDict
                output ==
                    IF /\ "max_output_tokens" \in DOMAIN model_data
                       /\ model_data["max_output_tokens"] > 0
                    THEN Put(window, "max_output_tokens", model_data["max_output_tokens"])
                    ELSE window
                pricing == ConvertPricing(model_data)
                priced == IF pricing.map THEN Put(output, "pricing", pricing.attrs)
                          ELSE output
                capabilities == ConvertCapabilities(model_data)
                capable == IF capabilities # <<>>
                           THEN Put(priced, "capabilities", capabilities)
                           ELSE priced
                dated == IF "deprecation_date" \in DOMAIN model_data
                         THEN Put(capable, "deprecation_date",
                                  model_data["deprecation_date"])
                         ELSE capable
                reasoning == Get(model_data, "output_cost_per_reasoning_token", 0)
            IN  IF reasoning > 0
                THEN Put(dated, "pricing",
                         Put(Get(dated, "pricing", EmptyDict), "reasoning",
                             PerMillion(reasoning)))
                ELSE dated
    IN  [provider \in {ex_provider(model_id) : model_id \in kept} |->
            [model_id \in {k \in kept : ex_provider(k) = provider} |->
                ModelConfig(litellm_data[model_id])]]

\* main, lines 196-199: the loop over providers.items(), which calls
\* update_provider_config for each group that has a model.  fs holds the
\* files config/models/<provider>.yml by provider; a provider it does not
\* name has no file.  The groups come in the order in which their first
\* model stands in the data, data_order being the order of the keys in the
\* JSON file, which json.load keeps.  A call that raises in merge_configs
\* leaves its file as it was and ends the script: the groups after it are
\* not written.
SyncedFiles(fs, litellm_data, data_order) ==
    LET providers == ProcessModelsByProvider(litellm_data)
        models(provider) ==
            [model_id \in DOMAIN providers[provider] |->
                Rec(providers[provider][model_id])]
        stored(provider) ==
            IF provider \in DOMAIN fs THEN fs[provider]
            ELSE [exists |-> FALSE, doc |-> EmptyDict]
        first(provider) ==
            CHOOSE i \in 1..Len(data_order) :
                /\ data_order[i] \in DOMAIN providers[provider]
                /\ \A j \in 1..(i - 1) :
                      data_order[j] \notin DOMAIN providers[provider]
        raises(provider) ==
            /\ DOMAIN providers[provider] # {}
            /\ MergeRaises(LoadExistingConfig(stored(provider), provider),
                           models(provider))
        reached(provider) ==
            \A earlier \in DOMAIN providers :
                first(earlier) < first(provider) => ~raises(earlier)
    IN  [files |->
            [provider \in (DOMAIN fs) \cup (DOMAIN providers) |->
                IF /\ provider \in DOMAIN providers
                   /\ DOMAIN providers[provider] # {}
                   /\ reached(provider)
                THEN Reconciled(stored(provider), provider, models(provider))
                ELSE stored(provider)],
         raised |-> \E provider \in DOMAIN providers : raises(provider)]

\* The LiteLLM data as loaded: up to four entries, sample_spec among them,
\* each with a provider that is mapped to itself, mapped to another name,
\* not mapped, empty or missing.  config/models is empty, or holds the
\* files openai.yml, gemini.yml and ollama.yml as they were kept by hand:
\* openai.yml with a provider value of an earlier edit and a model with a
\* note and capabilities, gemini.yml with a model that has no attributes
\* (o1: null), ollama.yml empty.  run.data_order is the order of the keys
\* in the JSON file, any order of them.
InitGroup ==
    LET ModelData ==
            { [litellm_provider |-> "openai", mode |-> "chat", max_tokens |-> 4096,
               max_input_tokens |-> 128000, max_output_tokens |-> 16384,
               input_cost_per_token |-> 250000, output_cost_per_token |-> 1000000,
               supports_vision |-> TRUE, supports_function_calling |-> TRUE],
              [litellm_provider |-> "openai", supports_vision |-> FALSE,
               supports_reasoning |-> TRUE,
               output_cost_per_reasoning_token |-> 6000000],
              [litellm_provider |-> "gemini", mode |-> "chat", max_tokens |-> 8192,
               max_output_tokens |-> 0, supports_native_streaming |-> TRUE,
               deprecation_date |-> "2025-01-01"],
              [litellm_provider |-> "vertex_ai", mode |-> "embedding",
               input_cost_per_token |-> 25, output_cost_per_token |-> 0],
              [litellm_provider |-> "ollama_chat"],
              [litellm_provider |-> "azure", mode |-> "chat", max_tokens |-> 4096],
              [litellm_provider |-> "", max_tokens |-> 4096],
              [mode |-> "chat", max_tokens |-> 4096] }
        Kept(provider) ==
            CASE provider = "openai" ->
                   [provider |-> "azure", default_model |-> "gpt-4o",
                    models |-> Put(EmptyDict, "gpt-4o",
                                   Rec([context_window |-> 8,
                                        notes |-> "kept by hand",
                                        capabilities |-> <<"vision", "audio">>]))]
              [] provider = "gemini" ->
                   [provider |-> "gemini", models |-> Put(EmptyDict, "o1", Null)]
              [] OTHER -> EmptyDict
    IN  /\ fetched \in UNION {[ids -> ModelData] :
                                ids \in SUBSET {"sample_spec", "gpt-4o",
                                                "gemini-pro", "o1"}}
        /\ files \in {[provider \in {"openai", "gemini", "ollama"} |->
                         IF present
                         THEN [exists |-> TRUE, doc |-> Kept(provider)]
                         ELSE [exists |-> FALSE, doc |-> EmptyDict]] :
                      present \in BOOLEAN}
        /\ run \in {[data_order |-> order] :
                        order \in {list \in [1..Cardinality(DOMAIN fetched) ->
                                                DOMAIN fetched] :
                                      SetOf(list) = DOMAIN fetched}}
        /\ call = [op |-> "init", providers |-> EmptyDict, raised |-> FALSE]
        /\ disk = Unused /\ heap = Unused /\ procs = Unused

\* main, lines 184-199: providers = process_models_by_provider(litellm_data),
\* unless no data was loaded, and update_provider_config for every group.
SyncMain ==
    /\ DOMAIN fetched # {}
    /\ files' = SyncedFiles(files, fetched, run.data_order).files
    /\ call' = [op |-> "main",
                providers |-> ProcessModelsByProvider(fetched),
                raised |-> SyncedFiles(files, fetched, run.data_order).raised]
    /\ UNCHANGED <<disk, fetched, heap, procs, run>>

SpecGroup == InitGroup /\ [][SyncMain]_vars

\* ---------------------------------------------- one file, batch after batch
\*
\* update_provider_config called again and again on the file of one
\* provider, each call with a batch of its own: a batch that reports the
\* studied model (with a record or with null), or no model.  As in Spec the
\* function is called with any batch; main passes the ones that are not
\* empty.

InitGrow ==
    /\ disk \in InitDisks
    /\ call = NoCall
    /\ fetched = Unused /\ heap = Unused /\ files = Unused /\ procs = Unused
    /\ run = Unused

NextGrow ==
    \E models \in {batch \in Batches : Bystander \notin DOMAIN batch} :
        UpdateProviderConfig(Provider, models)

SpecGrow == InitGrow /\ [][NextGrow]_vars

\* ------------------------------------------------- reading the last run

\* The document the last run found (empty when there was no file), its
\* models, the models now in the file, and the batch the run held.
Before == IF call.before.exists THEN call.before.doc ELSE EmptyDict

OldModels == ModelsOf(Before)

NowModels == ModelsOf(disk.doc)

NewRecords == call.records

Ran == call.op \in {"sync", "fetch_openai"}

\* The last run wrote the file.
Wrote ==
    \/ call.op = "sync" /\ ~call.raised
    \/ call.op = "fetch_openai" /\ call.ret = "True"

\* Model ids whose stored record and new record are both mappings.
InBoth ==
    {id \in (DOMAIN OldModels) \cap (DOMAIN NewRecords) :
        OldModels[id].map /\ NewRecords[id].map}

IsSortedNoDup(l) == \A i, j \in 1..Len(l) : i < j => Rank(l[i]) < Rank(l[j])

\* ----------------------------------------------------------------- claims

\* C1: No silent deletion. After every run (update_provider_config, or
\* fetch_openai through _save_config), each model id that was in the stored
\* models and is absent from the run's new records is still a key of the
\* stored models, with the record it had.
C1_NoSilentDeletion ==
    Ran => \A id \in (DOMAIN OldModels) \ (DOMAIN NewRecords) :
              id \in DOMAIN NowModels /\ NowModels[id] = OldModels[id]

\* The file held both models, the batch only the studied one, and the run
\* merged it and wrote the file.
C1_Witness ==
    /\ call.op = "sync" /\ Wrote
    /\ DOMAIN OldModels = {Studied, Bystander}
    /\ DOMAIN NewRecords = {Studied}
    /\ NowModels[Studied] # OldModels[Studied]
    /\ NowModels[Bystander] = OldModels[Bystander]

\* C2: Preservation of manual fields. For a model id in both the stored
\* models and the new records, every attribute the stored record alone has
\* is in the merged record with the value it had.
C2_ManualFieldsPreserved ==
    Wrote => \A id \in InBoth :
                \A key \in (DOMAIN OldModels[id].attrs) \ (DOMAIN NewRecords[id].attrs) :
                    /\ NowModels[id].map
                    /\ key \in DOMAIN NowModels[id].attrs
                    /\ NowModels[id].attrs[key] = OldModels[id].attrs[key]

\* The stored record had pricing, the new record a context window and no
\* pricing: the merged record has both.
C2_Witness ==
    /\ call.op = "sync" /\ Wrote
    /\ Studied \in InBoth
    /\ DOMAIN OldModels[Studied].attrs = {"pricing"}
    /\ DOMAIN NewRecords[Studied].attrs = {"context_window"}
    /\ NowModels[Studied].attrs = [pricing |-> Pricing, context_window |-> 128000]

\* C3: Union semantics for capabilities (merge_configs). When a model id is
\* in both the stored models and the new records and the new record has a
\* capabilities list, the merged list holds exactly the elements of the
\* stored list (none if absent) and of the new list, each once, in sorted
\* order.
C3_CapabilityUnion ==
    (call.op = "sync" /\ Wrote) =>
        \A id \in InBoth :
            "capabilities" \in DOMAIN NewRecords[id].attrs =>
                LET old == Get(OldModels[id].attrs, "capabilities", <<>>)
                    new == NewRecords[id].attrs["capabilities"]
                    got == NowModels[id].attrs["capabilities"]
                IN  /\ SetOf(got) = SetOf(old) \cup SetOf(new)
                    /\ IsSortedNoDup(got)

\* [streaming, vision] merged with [vision, function_calling] gives
\* [function_calling, streaming, vision].
C3_Witness ==
    /\ call.op = "sync" /\ Wrote
    /\ Studied \in InBoth
    /\ Get(OldModels[Studied].attrs, "capabilities", <<>>) = <<"streaming", "vision">>
    /\ Get(NewRecords[Studied].attrs, "capabilities", <<>>) = <<"vision", "function_calling">>
    /\ NowModels[Studied].attrs["capabilities"]
          = <<"function_calling", "streaming", "vision">>

\* C4: New value wins. For a model id in both the stored models and the new
\* records, every attribute of the new record other than the capability
\* list has the new record's value in the merged record.
C4_NewValueWins ==
    Wrote => \A id \in InBoth :
                \A key \in (DOMAIN NewRecords[id].attrs) \ {"capabilities"} :
                    /\ key \in DOMAIN NowModels[id].attrs
                    /\ NowModels[id].attrs[key] = NewRecords[id].attrs[key]

\* The stored context window 4096 was replaced by the new one, 128000.
C4_Witness ==
    /\ call.op = "sync" /\ Wrote
    /\ Studied \in InBoth
    /\ Get(OldModels[Studied].attrs, "context_window", 0) = 4096
    /\ Get(NewRecords[Studied].attrs, "context_window", 0) = 128000
    /\ NowModels[Studied].attrs["context_window"] = 128000

\* C5: Idempotence. Reconciling the result of a reconciliation with the same
\* batch of attribute records again gives the same document: a second
\* update_provider_config on unchanged new records returns normally and
\* leaves the file as the first one wrote it, capability lists and newly
\* inserted models included.
C5_Idempotent ==
    [][(/\ call.op = "sync" /\ ~call.raised /\ call'.op = "sync"
        /\ \A id \in DOMAIN fetched : fetched[id].map)
          => (~call'.raised /\ disk' = disk)]_vars

\* C6: Non-destructive on empty input. A reconciliation with an empty batch
\* returns normally and writes a document with the models the file had;
\* beside models only the provider field may differ from the stored
\* document.
C6_EmptyBatchKeepsDocument ==
    (call.op = "sync" /\ NewRecords = EmptyDict) =>
        /\ Wrote
        /\ NowModels = OldModels
        /\ DOMAIN disk.doc \subseteq (DOMAIN Before) \cup {"provider", "models"}
        /\ \A key \in (DOMAIN Before) \ {"provider", "models"} :
              key \in DOMAIN disk.doc /\ disk.doc[key] = Before[key]

\* An empty batch met a file with both models and a default model.
C6_Witness ==
    /\ call.op = "sync" /\ Wrote
    /\ NewRecords = EmptyDict
    /\ DOMAIN OldModels = {Studied, Bystander}
    /\ "default_model" \in DOMAIN Before
    /\ disk.doc = call.before.doc

\* C7: the provider field of the reconciled document always equals the
\* provider argument, also when the stored document carries another value.
C7_ProviderIsArgument ==
    Wrote => "provider" \in DOMAIN disk.doc /\ disk.doc["provider"] = Provider

\* C8: Default-model safety. In every document update_provider_config
\* writes, default_model is unset or a key of the merged models.
C8_DefaultNeverDangling ==
    (call.op = "sync" /\ Wrote) => ("default_model" \in DOMAIN disk.doc
                 => disk.doc["default_model"] \in DOMAIN NowModels)

\* C9: A valid default is kept. When the stored document has a
\* default_model that is a key of the merged models, the written document
\* has that same default_model.
C9_ValidDefaultKept ==
    (/\ Wrote
     /\ "default_model" \in DOMAIN Before
     /\ Before["default_model"] \in DOMAIN NowModels)
        => /\ "default_model" \in DOMAIN disk.doc
           /\ disk.doc["default_model"] = Before["default_model"]

\* C10: InvalidRecord. When an entry of the batch is no mapping, the run
\* still returns normally; that entry is not stored (its model keeps the
\* record it had, or stays absent), and every other entry is merged.
C10_InvalidRecordSkipped ==
    (call.op = "sync" /\ \E id \in DOMAIN NewRecords : ~NewRecords[id].map) =>
        /\ Wrote
        /\ \A id \in DOMAIN NewRecords :
              IF NewRecords[id].map
              THEN /\ id \in DOMAIN NowModels
                   /\ NowModels[id].map
                   /\ \A key \in (DOMAIN NewRecords[id].attrs) \ {"capabilities"} :
                         /\ key \in DOMAIN NowModels[id].attrs
                         /\ NowModels[id].attrs[key] = NewRecords[id].attrs[key]
              ELSE IF id \in DOMAIN OldModels
                   THEN id \in DOMAIN NowModels /\ NowModels[id] = OldModels[id]
                   ELSE id \notin DOMAIN NowModels

\* C12: MissingExisting. When update_provider_config finds no file for the
\* provider, or a file that is empty, it returns normally and writes the
\* document {provider: p, models: new_records}.
C12_MissingExisting ==
    (call.op = "sync" /\ (~call.before.exists \/ call.before.doc = EmptyDict)) =>
        /\ ~call.raised
        /\ disk.exists
        /\ disk.doc = [provider |-> Provider, models |-> NewRecords]

\* The file was there and empty, the batch held both models, and the file
\* now holds the provider and the batch.
C12_Witness ==
    /\ call.op = "sync"
    /\ call.before.exists /\ call.before.doc = EmptyDict
    /\ DOMAIN NewRecords = {Studied, Bystander}
    /\ disk.doc = [provider |-> Provider, models |-> NewRecords]

\* C13: New model inserted verbatim. After merge_configs, every model id of
\* the new records that the stored models did not have is a key of the merged
\* models, with a record equal to the new record (same keys, same values,
\* capability list as delivered).
C13_NewModelVerbatim ==
    (call.op = "sync" /\ Wrote) =>
        \A id \in (DOMAIN NewRecords) \ (DOMAIN OldModels) :
            id \in DOMAIN NowModels /\ NowModels[id] = NewRecords[id]

\* The file held only the bystander; the studied model arrived with the
\* unsorted list [vision, function_calling] and is stored with that list.
C13_Witness ==
    /\ call.op = "sync" /\ Wrote
    /\ DOMAIN OldModels = {Bystander}
    /\ Studied \in DOMAIN NewRecords
    /\ NewRecords[Studied].map
    /\ Get(NewRecords[Studied].attrs, "capabilities", <<>>) = <<"vision", "function_calling">>
    /\ NowModels[Studied] = NewRecords[Studied]
    /\ NowModels[Bystander] = OldModels[Bystander]

\* The last run was one of the three overwriting paths and wrote the file.
PersistWrote ==
    /\ call.op \in {"fetch_groq", "write_provider_config", "extractor_save_config"}
    /\ ~call.raised
    /\ call.op = "fetch_groq" => call.ret = "True"

\* C14: Every path that persists a provider's file merges with the file.
\* After fetch_groq, write_provider_config or LiteLLMExtractor._save_config
\* has written the file, every model the file had and the fresh data lacks
\* is still in the file with its record, and every attribute a stored record
\* had and the fresh record lacks is still in that model's record.
C14_PersistMergesWithDisk ==
    PersistWrote =>
        \A id \in DOMAIN OldModels :
            /\ id \in DOMAIN NowModels
            /\ IF id \in DOMAIN NewRecords
               THEN \A key \in (DOMAIN OldModels[id].attrs) \ (DOMAIN NewRecords[id].attrs) :
                       /\ key \in DOMAIN NowModels[id].attrs
                       /\ NowModels[id].attrs[key] = OldModels[id].attrs[key]
               ELSE NowModels[id] = OldModels[id]

\* The merged models the stated policy asks for: a new record's value wins
\* for every attribute except the capability list, which is the sorted union
\* of the stored and the new list.
PolicyModels == ModelsOf(MergeConfigs(LoadForSave(disk), fetched))

\* C15: Single merge policy. On the same stored document and the same batch,
\* merge_configs, ModelFetcher._save_config and the merge loop of
\* extract_litellm_models give the same merged models, those of the policy
\* "new wins, capability lists are unioned".
C15_SingleMergePolicy ==
    \A impl \in DOMAIN call.merged :
        /\ call.merged[impl] = PolicyModels
        /\ \A other \in DOMAIN call.merged : call.merged[impl] = call.merged[other]

\* The content of a models dict (each record by value) and of a document.
ModelsContent(objs, models) ==
    [model_id \in DOMAIN objs[models] |-> objs[objs[models][model_id].ref]]

DocumentContent(objs, doc) ==
    [key \in DOMAIN objs[doc] |->
        IF key = "models" THEN ModelsContent(objs, objs[doc][key].ref)
        ELSE objs[doc][key]]

\* The record objects a models dict refers to.
RecordObjects(objs, models) ==
    {objs[models][model_id].ref : model_id \in DOMAIN objs[models]}

\* C11: Purity. After merge_configs(existing, new_models) has returned, the
\* caller's existing document has the content it had before the call, so
\* has every record of new_models, and the returned document refers to no
\* record object of new_models.
C11_Purity ==
    heap.returned # 0 =>
        /\ DocumentContent(heap.objs, heap.existing)
              = DocumentContent(heap.before, heap.existing)
        /\ ModelsContent(heap.objs, heap.new_models)
              = ModelsContent(heap.before, heap.new_models)
        /\ RecordObjects(heap.objs, heap.objs[heap.returned]["models"].ref)
              \cap RecordObjects(heap.objs, heap.new_models) = {}

\* Both runs have ended (each returned or raised).
BothEnded == \A provider \in SideBySide : procs[provider].pc \in {"done", "raised"}

SideModels == [provider \in SideBySide |-> procs[provider].models]

\* C16: Independent reconciliations. When the steps of update_provider_config
\* for two different providers are interleaved in any order, both files end
\* with the content they have when the two runs execute one after the other.
C16_IndependentReconciliations ==
    BothEnded =>
        \/ files = OneAfterTheOther(run.start, SideModels, "openai", "anthropic")
        \/ files = OneAfterTheOther(run.start, SideModels, "anthropic", "openai")

\* The two runs took their steps in turns, each changed its own file, and
\* the files are those of the runs executed one after the other.
C16_Witness ==
    /\ BothEnded
    /\ run.steps = <<"openai", "anthropic", "openai", "anthropic",
                     "openai", "anthropic", "openai", "anthropic">>
    /\ \A provider \in SideBySide :
          files[ConfigPath(provider)] # run.start[ConfigPath(provider)]
    /\ files = OneAfterTheOther(run.start, SideModels, "openai", "anthropic")

\* A run of fetch_all: the script was started with no argument or with "all".
InFetchAll == run.pc \in {"loop", "done"} /\ run.argv \in {"", "all"}

\* C19: fetch_all attempts every provider of its list once and in list
\* order whatever the earlier fetches returned; the attempted providers are
\* split between successful and failed, each in exactly one of them and once,
\* and a provider is in successful only if its fetch returned True; at the
\* end all seven have been attempted.
C19_FailureIsolation ==
    InFetchAll =>
        /\ Len(run.attempted) = run.i - 1
        /\ \A k \in 1..Len(run.attempted) :
              /\ run.attempted[k].provider = FetchAllProviders[k]
              /\ LET provider == run.attempted[k].provider
                     in_successful == {j \in 1..Len(run.successful) :
                                          run.successful[j] = provider}
                     in_failed == {j \in 1..Len(run.failed) : run.failed[j] = provider}
                 IN  /\ Cardinality(in_successful) + Cardinality(in_failed) = 1
                     /\ in_successful # {} =>
                            /\ run.attempted[k].ret = "True"
                            /\ ~run.attempted[k].raised
        /\ Len(run.successful) + Len(run.failed) = Len(run.attempted)
        /\ run.pc = "done" => Len(run.attempted) = Len(FetchAllProviders)

\* fetch_all has ended after fetches that returned True, None and False.
C19_Witness ==
    /\ InFetchAll /\ run.pc = "done"
    /\ \A ret \in {"True", "None", "False"} :
          \E k \in 1..Len(run.attempted) : run.attempted[k].ret = ret
    /\ run.successful # <<>>
    /\ \E k \in 2..Len(run.attempted) :
          run.attempted[k - 1].ret # "True" /\ run.attempted[k].ret = "True"

\* C20: a call of fetch_provider returns a value; the value is True exactly
\* when the call wrote the provider's file, and when it is not True the file
\* is what it was before the call.
C20_TrueIffWrote ==
    call.op = "fetch_provider" =>
        /\ ~call.raised
        /\ call.ret = "True" <=> call.wrote
        /\ call.ret # "True" => call.after = call.before

\* C17: when the script ends, the file of every provider whose fetch failed
\* has been updated since the script started (by the LiteLLM sync the
\* script falls back to).
C17_FallbackToLiteLLM ==
    run.pc = "done" =>
        \A k \in 1..Len(run.failed) :
            run.failed[k] \in SetOf(FetchAllProviders) =>
                files[run.failed[k]] # run.start[run.failed[k]]

\* C18: when extract_all has ended, for every provider that
\* _extract_providers found, _process_provider selected at least one model
\* of the database, _save_config was called exactly once for it, and its
\* file exists.
C18_FileForEveryProvider ==
    run.pc = "done" =>
        \A provider \in run.providers :
            /\ run.selected[provider] # {}
            /\ run.saves[provider] = 1
            /\ files[FileName(provider)].exists

\* C21: after a run that wrote the file, every top-level key of the document
\* the run found, other than models and provider, is in the written
\* document with the value it had.
C21_TopLevelCarriedOver ==
    Wrote =>
        \A key \in (DOMAIN call.before.doc) \ {"models", "provider"} :
            /\ key \in DOMAIN disk.doc
            /\ disk.doc[key] = call.before.doc[key]

\* C22: a provider's saved models have one key for each of its models that
\* was kept: no two kept ids of a provider were given the same key.
C22_UniqueCleanedIds ==
    \A provider \in DOMAIN run.saves :
        run.saves[provider] > 0 =>
            Cardinality(DOMAIN files[FileName(provider)].doc.models) =
                run.stats.models[provider]

\* C23: the default that _get_default_model or write_provider_config picks
\* for a non-empty models map is a key of that map.
C23_DefaultNotDangling ==
    (call.op \in {"_get_default_model", "write_provider_config"} /\ DOMAIN fetched # {})
        => call.default \in DOMAIN fetched

\* _get_default_model found no listed name among several models, passed
\* over a deprecated model that has a keyword, and chose another model.
C23_Witness ==
    /\ call.op = "_get_default_model"
    /\ run.provider = "groq"
    /\ "gpt-4o-mini" \in DOMAIN fetched /\ Deprecated(fetched["gpt-4o-mini"])
    /\ Cardinality(DOMAIN fetched) >= 2
    /\ call.default \in (DOMAIN fetched) \ {"gpt-4o-mini"}

\* C24: the lists that detect_capabilities_from_model_id returns for the
\* same provider and model id in different runs are the same list.
C24_DeterministicOrder ==
    \A i, j \in 1..Len(run.detected) : run.detected[i] = run.detected[j]

\* What was discovered for a provider: the caps of its entry in
\* all_capabilities, or an empty dict.
DiscoveredFor(provider, all_capabilities) ==
    IF \E i \in 1..Len(all_capabilities) : all_capabilities[i].provider = provider
    THEN all_capabilities[CHOOSE i \in 1..Len(all_capabilities) :
                             all_capabilities[i].provider = provider].caps
    ELSE EmptyDict

\* The section with the lists the rewrite is meant to leave in it.
RewrittenSection(section, caps) ==
    IF "features" \notin DOMAIN caps THEN section
    ELSE [section EXCEPT
            !.features = NewFeaturesStr(SortedList(NamesOf(caps["features"]))),
            !.endpoints = IF "endpoints" \in DOMAIN caps /\
                             section.layout = "endpoints_first"
                          THEN NewEndpointsStr(SortedList(NamesOf(caps["endpoints"])))
                          ELSE @]

\* C25: the text written by update_provider_capabilities_ex is the input
\* text with, in the section of every provider that has discovered
\* features, the features list replaced by the sorted, duplicate-free
\* discovered features and, where an endpoints list precedes it, the
\* endpoints list replaced by the sorted discovered endpoints; nothing else
\* differs.
C25_SectionsRewritten ==
    (call.op = "update_provider_capabilities_ex" /\ ~call.raised) =>
        files.new.content =
            FileText([k \in 1..Len(run.sections) |->
                         RewrittenSection(run.sections[k],
                                          DiscoveredFor(run.sections[k].provider,
                                                        call.all_capabilities))])

\* C26: no step changes lib/ex_llm/provider_capabilities.ex: whatever
\* update_provider_capabilities_ex does, the file is afterwards what it was.
C26_OriginalUntouched == [][files'.ex = files.ex]_vars

\* update_provider_capabilities_ex has run on an existing file and written
\* a text that differs from it to provider_capabilities.ex.new.
C26_Witness ==
    /\ call.op = "update_provider_capabilities_ex" /\ ~call.raised
    /\ files.ex.exists /\ files.new.exists
    /\ files.new.content # files.ex.content
    /\ files.ex.content = FileText(run.sections)

\* C27: after process_models_by_provider, every entry of the data other
\* than sample_spec whose litellm_provider is a key of PROVIDER_MAP is,
\* under its own model id, in the group PROVIDER_MAP[litellm_provider] and
\* in no other group; every other entry is in no group; and no group holds
\* a model id that is not in the data.
C27_GroupedByProvider ==
    call.op = "main" =>
        /\ \A model_id \in DOMAIN fetched :
              LET groups == {provider \in DOMAIN call.providers :
                                model_id \in DOMAIN call.providers[provider]}
                  model_data == fetched[model_id]
              IN  IF /\ model_id # "sample_spec"
                     /\ "litellm_provider" \in DOMAIN model_data
                     /\ model_data["litellm_provider"] \in DOMAIN PROVIDER_MAP
                  THEN groups = {PROVIDER_MAP[model_data["litellm_provider"]]}
                  ELSE groups = {}
        /\ \A provider \in DOMAIN call.providers :
              DOMAIN call.providers[provider] \subseteq DOMAIN fetched

\* The data held a gemini and a vertex_ai model, grouped together under
\* gemini and written to the gemini file, next to sample_spec with a mapped provider and a model of a
\* provider that is not mapped, both left out.
C27_Witness ==
    /\ call.op = "main" /\ ~call.raised
    /\ files["gemini"].exists
    /\ DOMAIN ModelsOf(files["gemini"].doc) = {"gemini-pro", "o1"}
    /\ DOMAIN fetched = {"sample_spec", "gpt-4o", "gemini-pro", "o1"}
    /\ "litellm_provider" \in DOMAIN fetched["sample_spec"]
    /\ fetched["sample_spec"]["litellm_provider"] = "openai"
    /\ "litellm_provider" \in DOMAIN fetched["gpt-4o"]
    /\ fetched["gpt-4o"]["litellm_provider"] = "azure"
    /\ "litellm_provider" \in DOMAIN fetched["gemini-pro"]
    /\ fetched["gemini-pro"]["litellm_provider"] = "vertex_ai"
    /\ "litellm_provider" \in DOMAIN fetched["o1"]
    /\ fetched["o1"]["litellm_provider"] = "gemini"
    /\ DOMAIN call.providers = {"gemini"}
    /\ DOMAIN call.providers["gemini"] = {"gemini-pro", "o1"}

\* C28: when extract_all is done, every model id of the database was
\* selected by _belongs_to_provider for exactly one of the providers that
\* _extract_providers returned: for none of them twice, and for one at least.
C28_ExactlyOneProvider ==
    run.pc = "done" =>
        \A model_id \in DOMAIN run.data :
            Cardinality({provider \in run.providers :
                            model_id \in run.selected[provider]}) = 1

\* The capabilities a file holds for a model: the elements of its list, none
\* when the model, its record or the list is missing.
StoredCaps(d, model_id) ==
    LET models == ModelsOf(d.doc)
    IN  IF model_id \in DOMAIN models /\ models[model_id].map
        THEN SetOf(Get(models[model_id].attrs, "capabilities", <<>>))
        ELSE {}

\* C29: no merge_configs call takes a capability away: in every step of a
\* sequence of update_provider_config runs on the same file, each capability
\* a model had before the step it has after the step, whatever the batch of
\* that step reports for the model.
C29_CapabilitiesOnlyGrow ==
    [][\A model_id \in {Studied, Bystander} :
          StoredCaps(disk, model_id) \subseteq StoredCaps(disk', model_id)]_vars

\* The file held function_calling for the studied model, which only an
\* earlier batch can have brought; the last batch reported vision alone for
\* the model, and the merged list still holds function_calling.
C29_Witness ==
    /\ call.op = "sync" /\ ~call.raised
    /\ "function_calling" \in StoredCaps(call.before, Studied)
    /\ Studied \in DOMAIN call.records /\ call.records[Studied].map
    /\ Get(call.records[Studied].attrs, "capabilities", <<>>) = <<"vision">>
    /\ "function_calling" \in StoredCaps(disk, Studied)

====
